---- MODULE Spec2Model ----
(***************************************************************************)
(* The streaming event bridge of the web chat route (web/app/api/chat/     *)
(* route.ts), the hosted graph node (src/langgraph/dexter-graph.ts) and    *)
(* the session history store (src/storage/web-chat-store.ts).              *)
(*                                                                         *)
(* Strings are sequences of tokens: '' is <<>>, a + b is a \o b, and a     *)
(* string is truthy iff it is not <<>>.  null/undefined string fields are  *)
(* <<>> as well wherever the code only tests their truthiness.             *)
(***************************************************************************)
EXTENDS Integers, Sequences, FiniteSets, TLC

\* ------------------------------------------------------------------ bounds
MaxEvents == 4   \* agent events yielded by one agent.run iteration
MaxLines == 3    \* lines of one upstream SSE body
MaxChunk == 4    \* tokens delivered by one reader.read()
MaxMessages == 2 \* messages of one request body
MaxRows == 3     \* rows of web_chat_messages after which no further request is served
MaxRecords == 2  \* SSE records (an event line and its data line) of one upstream body
MaxPieces == 3   \* pieces of one error text
MaxCalls == 2    \* calls of the store made by one process

VARIABLES
    pc,           \* position of the one request being served
    status,       \* HTTP status of the response (0: none yet)
    query,        \* route.ts:36 / dexter-graph.ts:53
    sessionKey,   \* route.ts:46 / dexter-graph.ts:61 ("" is undefined)
    out,          \* the events enqueued on the ReadableStream controller
    closed,       \* controller.close() has run
    failure,      \* what threw or was refused in the run ("none": nothing)
    toolCalls,    \* route.ts:52
    toolCounter,  \* route.ts:53
    finalAnswer,  \* route.ts:91
    trace,        \* the events agent.run has yielded so far
    history,      \* the InMemoryChatHistory of the turn
    store,        \* rows of web_chat_messages, ordered by id
    store0,       \* the rows present when the request arrived
    upstream,     \* bytes of the remote response body not yet read
    decoder,      \* route.ts:225: the bytes of a character the decoder holds back
    buffer,       \* route.ts:226
    currentEvent, \* route.ts:227
    started,      \* route.ts:229
    seen,         \* the message event names a data line has been parsed under so far
    answer,       \* dexter-graph.ts:84
    result,       \* the graph node's returned result
    sink,         \* the ReadableStream the controller feeds: "open" or "cancelled"
    refused,      \* the types of the events controller.enqueue has refused
    schemaReady,  \* web-chat-store.ts:45
    schema,       \* what the database holds of web_chat_messages: its table, its index
    inflight,     \* the store calls in flight: where each is, what it is to do
    raw,          \* the error text given to the classifier
    classified,   \* what classifyError and isNonRetryableError returned for it
    other         \* route.ts:52-53, 57 of a second request served at the same time

vars == <<pc, status, query, sessionKey, out, closed, failure, toolCalls, toolCounter,
          finalAnswer, trace, history, store, store0, upstream, decoder, buffer,
          currentEvent, started, seen, answer, result, sink, refused, schemaReady,
          schema, inflight, raw, classified, other>>

bridgeVars == <<out, closed, toolCalls, toolCounter, finalAnswer>>
remoteVars == <<upstream, decoder, buffer, currentEvent, started, seen>>
graphVars == <<answer, result>>
sinkVars == <<sink, refused>>
libsqlVars == <<schemaReady, schema, inflight>>
errorVars == <<raw, classified>>
restVars == <<sinkVars, libsqlVars, errorVars, other>>

\* ------------------------------------------------------------ string helpers
Min(a, b) == IF a < b THEN a ELSE b

IsSpace(t) == t \in {" ", "\r"}

RECURSIVE TrimEnd(_)
TrimEnd(s) ==
    IF s = <<>> THEN <<>>
    ELSE IF IsSpace(s[Len(s)]) THEN TrimEnd(SubSeq(s, 1, Len(s) - 1))
    ELSE s

RECURSIVE TrimStart(_)
TrimStart(s) ==
    IF s = <<>> THEN <<>>
    ELSE IF IsSpace(s[1]) THEN TrimStart(Tail(s))
    ELSE s

\* mutant of Trim: the text is taken as it is
TrimNone(s) == s

Trim(s) == TrimStart(TrimEnd(s))

\* ------------------------------------------------------------ request bodies
UserText(c) == [role |-> "user", hasContent |-> TRUE, content |-> c, parts |-> <<>>]
UserParts(p) == [role |-> "user", hasContent |-> FALSE, content |-> <<>>, parts |-> p]
AssistantText(c) == [role |-> "assistant", hasContent |-> TRUE, content |-> c, parts |-> <<>>]

MessageKinds ==
    { UserText(<<"q">>),
      UserText(<<" ">>),
      UserParts(<<[type |-> "text", text |-> <<" ", "q">>],
                  [type |-> "file", text |-> <<"x">>],
                  [type |-> "text", text |-> <<" ">>]>>),
      AssistantText(<<"a">>) }

Bodies == UNION { [1..n -> MessageKinds] : n \in 0..MaxMessages }

Threads == {"", "k1"}
\* crypto.randomUUID(): the identifiers it can return
UuidPool == <<"web-uuid1", "web-uuid2", "web-uuid3", "web-uuid4", "web-uuid5">>

\* the index of the last message with role 'user', 0 if there is none
LastUser(messages) ==
    LET idx == { i \in 1..Len(messages) : messages[i].role = "user" }
    IN IF idx = {} THEN 0 ELSE CHOOSE i \in idx : \A j \in idx : j <= i

RECURSIVE JoinText(_)
JoinText(parts) ==
    IF parts = <<>> THEN <<>>
    ELSE (IF Head(parts).type = "text" THEN Head(parts).text ELSE <<>>)
         \o JoinText(Tail(parts))

extractUserText(messages) ==
    LET i == LastUser(messages)
    IN IF i = 0 THEN <<>>
       ELSE IF messages[i].hasContent THEN messages[i].content
       ELSE JoinText(messages[i].parts)

\* ------------------------------------------------------------ outbound events
NoId == 0

Ev(t, id, name, data) == [type |-> t, toolCallId |-> id, toolName |-> name, data |-> data]

EvStart == Ev("start", NoId, "", <<>>)
EvStartStep == Ev("start-step", NoId, "", <<>>)
EvToolInput(id, tool, args) == Ev("tool-input-available", id, tool, args)
EvToolOutput(id, output) == Ev("tool-output-available", id, "", output)
EvTextStart == Ev("text-start", NoId, "", <<>>)
EvTextDelta(delta) == Ev("text-delta", NoId, "", delta)
EvTextEnd == Ev("text-end", NoId, "", <<>>)
EvFinishStep == Ev("finish-step", NoId, "", <<>>)
EvFinish == Ev("finish", NoId, "", <<"stop">>)
EvError(text) == Ev("error", NoId, "", text)

\* send: controller.enqueue of one encoded record
send(o, chunk) == Append(o, chunk)

\* ------------------------------------------------------------ agent events
Tools == {"a", "b"}
Answers == {<<"A">>, <<>>}

AgentEvent(t, tool, payload) == [type |-> t, tool |-> tool, payload |-> payload]

\* ------------------------------------------------------------ chat history
NoSummary == <<>>
\* the summaries saveAnswer may generate for an answer
Summaries == {<<"sum">>}

PriorTurn == [session |-> "k1", query |-> <<"q0">>, answer |-> <<"A0">>, summary |-> NoSummary]
\* the table when the request arrives: it holds one earlier turn of session k1
InitialStores == {<<PriorTurn>>}

Message(r) == [query |-> r.query, answer |-> r.answer, summary |-> r.summary]

RECURSIVE MapMessages(_)
MapMessages(rows) ==
    IF rows = <<>> THEN <<>> ELSE <<Message(Head(rows))>> \o MapMessages(Tail(rows))

\* mutant of loadSessionMessages: the WHERE clause is missing
loadSessionMessagesAll(rows, sessionId) == MapMessages(rows)

\* SELECT ... WHERE session_id = ? ORDER BY id ASC
loadSessionMessages(rows, sessionId) ==
    MapMessages(SelectSeq(rows, LAMBDA r : r.session = sessionId))

\* mutant of appendSessionMessage: one row per session (INSERT OR REPLACE on a
\* table keyed by session_id)
appendSessionMessageReplace(rows, sessionId, message) ==
    Append(SelectSeq(rows, LAMBDA r : r.session # sessionId),
           [session |-> sessionId, query |-> message.query,
            answer |-> message.answer, summary |-> message.summary])

\* INSERT INTO web_chat_messages (session_id, query, answer, summary)
appendSessionMessage(rows, sessionId, message) ==
    Append(rows, [session |-> sessionId, query |-> message.query,
                  answer |-> message.answer, summary |-> message.summary])

saveUserQuery(h, q) == Append(h, [query |-> q, answer |-> <<>>, summary |-> NoSummary])

saveAnswer(h, a, s) ==
    IF h = <<>> THEN h
    ELSE [h EXCEPT ![Len(h)] = [@ EXCEPT !.answer = a, !.summary = s]]

\* history after the load and the saveUserQuery that follows it
LoadedHistory(rows, key, q) == saveUserQuery(loadSessionMessages(rows, key), q)

\* `web-${crypto.randomUUID()}`: a key that no stored turn carries
FreshKey ==
    LET free == { i \in 1..Len(UuidPool) :
                    \A j \in 1..Len(store) : store[j].session # UuidPool[i] }
    IN UuidPool[CHOOSE i \in free : \A j \in free : i <= j]

\* --------------------------------------------------------------------- Init
\* a new response stream, in a process whose store has been used before (the
\* table holds an earlier turn) and whose classifier has not been called
InitRest ==
    /\ sink = "open"
    /\ refused = <<>>
    /\ schemaReady = TRUE
    /\ schema = {"table", "index"}
    /\ inflight = <<>>
    /\ raw = <<>>
    /\ classified = [type |-> "none", nonRetryable |-> FALSE]
    /\ other = [toolCalls |-> <<>>, toolCounter |-> 0, out |-> <<>>, trace |-> <<>>]

Init ==
    /\ pc = "idle"
    /\ status = 0
    /\ query = <<>>
    /\ sessionKey = ""
    /\ out = <<>>
    /\ closed = FALSE
    /\ failure = "none"
    /\ toolCalls = <<>>
    /\ toolCounter = 0
    /\ finalAnswer = <<>>
    /\ trace = <<>>
    /\ history = <<>>
    /\ store \in InitialStores
    /\ store0 = store
    /\ upstream = <<>>
    /\ decoder = <<>>
    /\ buffer = <<>>
    /\ currentEvent = <<"null">>
    /\ started = FALSE
    /\ seen = {}
    /\ answer = <<>>
    /\ result = <<>>
    /\ InitRest

\* ------------------------------------------------ the route: POST (local path)
\* mutant of Catch: the failure closes the stream without an error event
CatchSilent(what, message) ==
    /\ failure' = what
    /\ out' = out
    /\ closed' = TRUE
    /\ pc' = "closed"

\* mutant of Catch: the error is sent and the stream is left open (no finally)
CatchNoClose(what, message) ==
    /\ failure' = what
    /\ out' = send(out, EvError(message))
    /\ closed' = closed
    /\ pc' = "closed"

\* catch (error) { send({type: 'error', ...}) } finally { controller.close() }
Catch(what, message) ==
    /\ failure' = what
    /\ out' = send(out, EvError(message))
    /\ closed' = TRUE
    /\ pc' = "closed"

\* finally { controller.close() } with nothing thrown
Finally ==
    /\ closed' = TRUE
    /\ pc' = "closed"

\* mutant of POST: the stored turns are loaded before the transport is chosen
POSTLoadsFirst(messages, thread, remote) ==
    /\ pc = "idle"
    /\ LET q == Trim(extractUserText(messages))
       IN IF q = <<>>
          THEN /\ status' = 400
               /\ pc' = "rejected"
               /\ UNCHANGED <<query, sessionKey, out, store0, history>>
          ELSE /\ status' = 200
               /\ query' = q
               /\ sessionKey' = (IF thread # "" THEN thread ELSE FreshKey)
               /\ out' = send(send(out, EvStart), EvStartStep)
               /\ store0' = store
               /\ history' = (IF remote THEN loadSessionMessages(store, sessionKey') ELSE history)
               /\ pc' = (IF remote THEN "fetch" ELSE "load")
    /\ UNCHANGED <<closed, failure, toolCalls, toolCounter, finalAnswer, trace,
                   store, remoteVars, graphVars>>
    /\ UNCHANGED restVars

POST(messages, thread, remote) ==
    /\ pc = "idle"
    /\ LET q == Trim(extractUserText(messages))
       IN IF q = <<>>
          THEN /\ status' = 400
               /\ pc' = "rejected"
               /\ UNCHANGED <<query, sessionKey, out, store0>>
          ELSE /\ status' = 200
               /\ query' = q
               /\ sessionKey' = (IF thread # "" THEN thread ELSE FreshKey)
               /\ out' = send(send(out, EvStart), EvStartStep)
               /\ store0' = store
               /\ pc' = (IF remote THEN "fetch" ELSE "load")
    /\ UNCHANGED <<closed, failure, toolCalls, toolCounter, finalAnswer, trace,
                   history, store, remoteVars, graphVars>>
    /\ UNCHANGED restVars

\* await loadSessionMessages; history.loadMessages; history.saveUserQuery
LocalLoad ==
    /\ pc = "load"
    /\ \/ /\ history' = LoadedHistory(store, sessionKey, query)
          /\ pc' = "create"
          /\ UNCHANGED <<out, closed, failure>>
       \/ /\ Catch("load", <<"load failed">>)
          /\ UNCHANGED history
    /\ UNCHANGED <<status, query, sessionKey, toolCalls, toolCounter, finalAnswer,
                   trace, store, store0, remoteVars, graphVars>>
    /\ UNCHANGED restVars

\* await Agent.create
LocalCreate ==
    /\ pc = "create"
    /\ \/ /\ pc' = "loop"
          /\ UNCHANGED <<out, closed, failure>>
       \/ Catch("create", <<"create failed">>)
    /\ UNCHANGED <<status, query, sessionKey, toolCalls, toolCounter, finalAnswer,
                   trace, history, store, store0, remoteVars, graphVars>>
    /\ UNCHANGED restVars

\* mutant of findIndex: the newest entry of the name (findLastIndex)
findLastIndex(calls, tool) ==
    LET idx == { i \in 1..Len(calls) : calls[i].tool = tool }
    IN IF idx = {} THEN 0 ELSE CHOOSE i \in idx : \A j \in idx : j <= i

\* toolCalls.findIndex((entry) => entry.tool === tool), 0 for JavaScript's -1
findIndex(calls, tool) ==
    LET idx == { i \in 1..Len(calls) : calls[i].tool = tool }
    IN IF idx = {} THEN 0 ELSE CHOOSE i \in idx : \A j \in idx : i <= j

\* mutant of splice: the entry found is read and left in the table
spliceKeep(calls, idx) == calls

\* toolCalls.splice(idx, 1)
splice(calls, idx) ==
    SubSeq(calls, 1, idx - 1) \o SubSeq(calls, idx + 1, Len(calls))

\* mutant of Resolve: the synthetic id is taken before the increment
\* (`tool-${toolCounter++}`), the id of the last start
ResolvePostIncrement(calls, counter, tool) ==
    LET idx == findIndex(calls, tool)
    IN IF idx >= 1
       THEN [toolId |-> calls[idx].id, calls |-> splice(calls, idx), counter |-> counter]
       ELSE [toolId |-> counter, calls |-> calls, counter |-> counter + 1]

\* idx >= 0 ? toolCalls.splice(idx, 1)[0].id : `tool-${++toolCounter}`
Resolve(calls, counter, tool) ==
    LET idx == findIndex(calls, tool)
    IN IF idx >= 1
       THEN [toolId |-> calls[idx].id, calls |-> splice(calls, idx), counter |-> counter]
       ELSE [toolId |-> counter + 1, calls |-> calls, counter |-> counter + 1]

\* mutant of ErrorOutput: the bare message
ErrorOutputBare(error) == error

\* `Error: ${event.error}`
ErrorOutput(error) == <<"Error: ">> \o error

\* mutant of DoneEvents: no text-delta for an empty answer
DoneEventsSkipEmpty(finalAns) ==
    IF finalAns = <<>>
    THEN <<EvTextStart, EvTextEnd, EvFinishStep, EvFinish>>
    ELSE <<EvTextStart, EvTextDelta(finalAns), EvTextEnd, EvFinishStep, EvFinish>>

\* the five sends of case 'done'
DoneEvents(finalAns) ==
    <<EvTextStart, EvTextDelta(finalAns), EvTextEnd, EvFinishStep, EvFinish>>

Yield(event) ==
    /\ pc = "loop"
    /\ Len(trace) < MaxEvents
    /\ trace' = Append(trace, event)
    /\ UNCHANGED <<pc, status, query, sessionKey, closed, failure, history, store,
                   store0, remoteVars, graphVars>>
    /\ UNCHANGED restVars

ToolStart(tool, args) ==
    /\ Yield(AgentEvent("tool_start", tool, args))
    /\ toolCounter' = toolCounter + 1
    /\ toolCalls' = Append(toolCalls, [tool |-> tool, id |-> toolCounter + 1])
    /\ out' = send(out, EvToolInput(toolCounter + 1, tool, args))
    /\ UNCHANGED finalAnswer

ToolEnd(tool, res) ==
    /\ Yield(AgentEvent("tool_end", tool, res))
    /\ LET r == Resolve(toolCalls, toolCounter, tool)
       IN /\ toolCalls' = r.calls
          /\ toolCounter' = r.counter
          /\ out' = send(out, EvToolOutput(r.toolId, res))
    /\ UNCHANGED finalAnswer

ToolError(tool, error) ==
    /\ Yield(AgentEvent("tool_error", tool, error))
    /\ LET r == Resolve(toolCalls, toolCounter, tool)
       IN /\ toolCalls' = r.calls
          /\ toolCounter' = r.counter
          /\ out' = send(out, EvToolOutput(r.toolId, ErrorOutput(error)))
    /\ UNCHANGED finalAnswer

Done(ans) ==
    /\ Yield(AgentEvent("done", "", ans))
    /\ finalAnswer' = ans
    /\ out' = out \o DoneEvents(ans)
    /\ UNCHANGED <<toolCalls, toolCounter>>

\* default: break
OtherEvent ==
    /\ Yield(AgentEvent("thinking", "", <<>>))
    /\ UNCHANGED <<out, toolCalls, toolCounter, finalAnswer>>

\* agent.run throws inside the for await
AgentThrows ==
    /\ pc = "loop"
    /\ Catch("agent", <<"agent failed">>)
    /\ UNCHANGED <<status, query, sessionKey, toolCalls, toolCounter, finalAnswer,
                   trace, history, store, store0, remoteVars, graphVars>>
    /\ UNCHANGED restVars

\* the for await ends; if (finalAnswer) { await history.saveAnswer(...) ... }
AgentEnds ==
    /\ pc = "loop"
    /\ IF finalAnswer # <<>>
       THEN /\ pc' = "save"
            /\ UNCHANGED closed
       ELSE Finally
    /\ UNCHANGED <<status, query, sessionKey, out, failure, toolCalls, toolCounter, finalAnswer,
                   trace, history, store, store0, remoteVars, graphVars>>
    /\ UNCHANGED restVars

Last(s) == s[Len(s)]

\* await history.saveAnswer(finalAnswer); const last = ...; if (last?.answer)
LocalSave ==
    /\ pc = "save"
    /\ \/ \E s \in Summaries :
             /\ history' = saveAnswer(history, finalAnswer, s)
             /\ IF history' # <<>> /\ Last(history').answer # <<>>
                THEN /\ pc' = "append"
                     /\ UNCHANGED closed
                ELSE Finally
             /\ UNCHANGED <<out, failure>>
       \/ /\ Catch("save", <<"save failed">>)
          /\ UNCHANGED history
    /\ UNCHANGED <<status, query, sessionKey, toolCalls, toolCounter, finalAnswer,
                   trace, store, store0, remoteVars, graphVars>>
    /\ UNCHANGED restVars

\* mutant of LocalAppend: the session is written back from the rows the request
\* found when it arrived plus its own turn (a read-modify-write)
LocalAppendStale ==
    /\ pc = "append"
    /\ \/ /\ store' = appendSessionMessage(store0, sessionKey, Last(history))
          /\ Finally
          /\ UNCHANGED <<out, failure>>
       \/ /\ Catch("append", <<"append failed">>)
          /\ UNCHANGED store
    /\ UNCHANGED <<status, query, sessionKey, toolCalls, toolCounter, finalAnswer,
                   trace, history, store0, remoteVars, graphVars>>
    /\ UNCHANGED restVars

\* await appendSessionMessage(sessionKey, {query, answer, summary})
LocalAppend ==
    /\ pc = "append"
    /\ \/ /\ store' = appendSessionMessage(store, sessionKey, Last(history))
          /\ Finally
          /\ UNCHANGED <<out, failure>>
       \/ /\ Catch("append", <<"append failed">>)
          /\ UNCHANGED store
    /\ UNCHANGED <<status, query, sessionKey, toolCalls, toolCounter, finalAnswer,
                   trace, history, store0, remoteVars, graphVars>>
    /\ UNCHANGED restVars

\* ------------------------------------------- the route: streamFromLangSmith
\* A body is a sequence of tokens; "\n" is the line feed, "event:" and "data:"
\* are the two field prefixes, and a JSON document is one token.
Undefined == <<"undefined">>
Null == <<"null">>

Chunk(content, text) == [content |-> content, text |-> text]

\* JSON.parse of a data payload: the documents that parse, and payload[0] of each
JsonDocs ==
    [ t \in {"[{content:Hel}]", "[{content:Hello}]", "[{content:}]", "[{text:T}]"} |->
        CASE t = "[{content:Hel}]" -> Chunk(<<"Hel">>, Undefined)
          [] t = "[{content:Hello}]" -> Chunk(<<"Hello">>, Undefined)
          [] t = "[{content:}]" -> Chunk(<<>>, Undefined)
          [] t = "[{text:T}]" -> Chunk(Undefined, <<"T">>) ]

\* message chunks that carry the id of the run that produced them
MessageChunk(content, id) == [content |-> content, text |-> Undefined, id |-> id]

RunDocs ==
    [ t \in {"[{content:Hel,id:run-1}]", "[{content:Hello,id:run-1}]",
             "[{content:Sub,id:call-1}]"} |->
        CASE t = "[{content:Hel,id:run-1}]" -> MessageChunk(<<"Hel">>, <<"run-", "1">>)
          [] t = "[{content:Hello,id:run-1}]" -> MessageChunk(<<"Hello">>, <<"run-", "1">>)
          [] t = "[{content:Sub,id:call-1}]" -> MessageChunk(<<"Sub">>, <<"call-", "1">>) ]

\* a document can also be written out: "[{content:", the characters of the
\* string, "}]"
Characters == {"U+00E9", "U+FFFD"}

JSONparse(dataText) ==
    IF Len(dataText) = 1 /\ dataText[1] \in DOMAIN JsonDocs
    THEN [ok |-> TRUE, first |-> JsonDocs[dataText[1]]]
    ELSE IF Len(dataText) = 1 /\ dataText[1] \in DOMAIN RunDocs
    THEN [ok |-> TRUE, first |-> RunDocs[dataText[1]]]
    ELSE IF /\ Len(dataText) >= 2
            /\ dataText[1] = "[{content:"
            /\ dataText[Len(dataText)] = "}]"
            /\ \A i \in 2..(Len(dataText) - 1) : dataText[i] \in Characters
    THEN [ok |-> TRUE,
          first |-> Chunk(SubSeq(dataText, 2, Len(dataText) - 1), Undefined)]
    ELSE [ok |-> FALSE, first |-> Chunk(Undefined, Undefined)]

\* The body arrives as bytes.  Every token but two is a character of one byte;
\* 0xC3 0xA9 are the two bytes of U+00E9, and a byte sequence that is no
\* character decodes to U+FFFD.
Decoded(c, d) == [text |-> <<c>> \o d.text, pending |-> d.pending]

\* decoder.decode(bytes, {stream}) of a TextDecoder holding `pending`
RECURSIVE decode(_, _, _)
decode(pending, bytes, stream) ==
    IF bytes = <<>>
    THEN IF stream \/ pending = <<>>
         THEN [text |-> <<>>, pending |-> pending]
         ELSE [text |-> <<"U+FFFD">>, pending |-> <<>>]
    ELSE IF pending # <<>>
    THEN IF Head(bytes) = "0xA9"
         THEN Decoded("U+00E9", decode(<<>>, Tail(bytes), stream))
         ELSE Decoded("U+FFFD", decode(<<>>, bytes, stream))
    ELSE IF Head(bytes) = "0xC3" THEN decode(<<"0xC3">>, Tail(bytes), stream)
    ELSE IF Head(bytes) = "0xA9"
    THEN Decoded("U+FFFD", decode(<<>>, Tail(bytes), stream))
    ELSE Decoded(Head(bytes), decode(<<>>, Tail(bytes), stream))

\* messageChunk?.content ?? messageChunk?.text ?? ''
Delta(messageChunk) ==
    IF messageChunk.content # Undefined THEN messageChunk.content
    ELSE IF messageChunk.text # Undefined THEN messageChunk.text
    ELSE <<>>

LineKinds ==
    { <<"event:", " ", "messages">>,
      <<"event:", " ", "messages/partial">>,
      <<"event:", " ", "metadata">>,
      <<>>,
      <<"data:", " ", "[{content:Hel}]">>,
      <<"data:", " ", "[{content:Hello}]", "\r">>,
      <<"data:", " ", "[{content:}]">>,
      <<"data:", " ", "[{text:T}]">>,
      <<"data:", " ", "{bad">>,
      <<":", "ping">> }

RECURSIVE Join(_)
Join(ls) ==
    IF ls = <<>> THEN <<>>
    ELSE IF Len(ls) = 1 THEN Head(ls)
    ELSE Head(ls) \o <<"\n">> \o Join(Tail(ls))

\* the bodies a remote run can answer with: lines joined by line feeds (a body
\* whose last line is the empty one ends with a line feed)
Upstreams ==
    { Join(l) : l \in UNION { [1..n -> LineKinds] : n \in 0..MaxLines } }

\* buffer.split('\n')
RECURSIVE split(_)
split(s) ==
    LET nl == { i \in 1..Len(s) : s[i] = "\n" }
    IN IF nl = {} THEN <<s>>
       ELSE LET i == CHOOSE k \in nl : \A j \in nl : k <= j
            IN <<SubSeq(s, 1, i - 1)>> \o split(SubSeq(s, i + 1, Len(s)))

Front(s) == SubSeq(s, 1, Len(s) - 1)

IsMessageEvent(ev) == ev = <<"messages">> \/ ev = <<"messages/partial">>

\* mutant of HandleData: the catch reports the payload that does not parse
HandleDataReportsBad(st, dataText) ==
    LET payload == JSONparse(dataText)
    IN IF ~payload.ok THEN [st EXCEPT !.out = send(@, EvError(<<"bad payload">>))]
       ELSE IF ~IsMessageEvent(st.currentEvent) THEN st
       ELSE LET delta == Delta(payload.first)
            IN IF delta = <<>> THEN st
               ELSE [st EXCEPT
                       !.out = send(IF st.started THEN @ ELSE send(@, EvTextStart),
                                    EvTextDelta(delta)),
                       !.started = TRUE]

\* mutant of HandleData: the text-delta is sent inside the if (!started) block,
\* so only the first content is passed on
HandleDataFirstOnly(st, dataText) ==
    LET payload == JSONparse(dataText)
    IN IF ~payload.ok THEN st
       ELSE IF ~IsMessageEvent(st.currentEvent) THEN st
       ELSE LET delta == Delta(payload.first)
            IN IF delta = <<>> \/ st.started THEN st
               ELSE [st EXCEPT
                       !.out = send(send(@, EvTextStart), EvTextDelta(delta)),
                       !.started = TRUE]

\* mutant of HandleData: text-start is sent for the first message payload,
\* before its delta is looked at
HandleDataEager(st, dataText) ==
    LET payload == JSONparse(dataText)
    IN IF ~payload.ok THEN st
       ELSE IF ~IsMessageEvent(st.currentEvent) THEN st
       ELSE LET delta == Delta(payload.first)
                begun == IF st.started THEN st.out ELSE send(st.out, EvTextStart)
            IN [st EXCEPT
                  !.out = IF delta = <<>> THEN begun ELSE send(begun, EvTextDelta(delta)),
                  !.started = TRUE]

\* the try block of one data line (route.ts 257-272)
HandleData(st, dataText) ==
    LET payload == JSONparse(dataText)
    IN IF ~payload.ok THEN st
       ELSE IF ~IsMessageEvent(st.currentEvent) THEN st
       ELSE LET delta == Delta(payload.first)
            IN IF delta = <<>> THEN st
               ELSE [st EXCEPT
                       !.out = send(IF st.started THEN @ ELSE send(@, EvTextStart),
                                    EvTextDelta(delta)),
                       !.started = TRUE]

\* a data line that reaches the try block, with the event name it is read under
Pair(event, data) == [event |-> event, data |-> data]

\* mutant of ProcessLine: a blank line leaves the event name as it is
ProcessLineNoReset(st, rawLine) ==
    LET line == TrimEnd(rawLine)
    IN IF line = <<>> THEN st
       ELSE IF line[1] = "event:" THEN [st EXCEPT !.currentEvent = Trim(Tail(line))]
       ELSE IF line[1] # "data:" THEN st
       ELSE LET dataText == Trim(Tail(line))
            IN IF dataText = <<>> THEN st
               ELSE HandleData([st EXCEPT !.pairs = Append(@, Pair(st.currentEvent, dataText))],
                               dataText)

\* the body of the for loop over lines (route.ts 242-273)
ProcessLine(st, rawLine) ==
    LET line == TrimEnd(rawLine)
    IN IF line = <<>> THEN [st EXCEPT !.currentEvent = Null]
       ELSE IF line[1] = "event:" THEN [st EXCEPT !.currentEvent = Trim(Tail(line))]
       ELSE IF line[1] # "data:" THEN st
       ELSE LET dataText == Trim(Tail(line))
            IN IF dataText = <<>> THEN st
               ELSE HandleData([st EXCEPT !.pairs = Append(@, Pair(st.currentEvent, dataText))],
                               dataText)

RECURSIVE ProcessLines(_, _)
ProcessLines(st, lines) ==
    IF lines = <<>> THEN st
    ELSE ProcessLines(ProcessLine(st, Head(lines)), Tail(lines))

\* the names among `messages` and `messages/partial` that the pairs were read under
MessageEvents(ps) ==
    { ps[i].event[1] : i \in { j \in 1..Len(ps) : IsMessageEvent(ps[j].event) } }

\* the loop's variables before a read, and the pairs the read parses
ParserState ==
    [currentEvent |-> currentEvent, started |-> started, out |-> out, pairs |-> <<>>]

\* mutant of StreamEnd: text-end whether or not a text block was started
StreamEndUnguarded(o, wasStarted) ==
    send(send(send(o, EvTextEnd), EvFinishStep), EvFinish)

\* the sends after the read loop (route.ts 278-282)
StreamEnd(o, wasStarted) ==
    send(send(IF wasStarted THEN send(o, EvTextEnd) ELSE o, EvFinishStep), EvFinish)

\* await fetch(...); if (!res.ok || !res.body) { send error; return }
RemoteFetch ==
    /\ pc = "fetch"
    /\ \/ \E body \in Upstreams :
             /\ upstream' = body
             /\ pc' = "read"
             /\ UNCHANGED <<out, closed, failure>>
       \/ /\ out' = send(out, EvError(<<"upstream said no">>))
          /\ failure' = "response"
          /\ Finally
          /\ UNCHANGED upstream
       \/ /\ Catch("fetch", <<"fetch failed">>)
          /\ UNCHANGED upstream
    /\ UNCHANGED <<status, query, sessionKey, toolCalls, toolCounter, finalAnswer,
                   trace, history, store, store0, decoder, buffer, currentEvent,
                   started, seen, graphVars>>
    /\ UNCHANGED restVars

\* mutant of RemoteRead: the last line is not held back (no lines.pop())
RemoteReadNoHoldBack(n) ==
    /\ pc = "read"
    /\ n \in 1..Min(MaxChunk, Len(upstream))
    /\ \E value \in {decode(decoder, SubSeq(upstream, 1, n), TRUE)} :
       \E lines \in {split(buffer \o value.text)} :
       \E st \in {ProcessLines(ParserState, lines)} :
          /\ decoder' = value.pending
          /\ buffer' = <<>>
          /\ currentEvent' = st.currentEvent
          /\ started' = st.started
          /\ seen' = seen \cup MessageEvents(st.pairs)
          /\ out' = st.out
    /\ upstream' = SubSeq(upstream, n + 1, Len(upstream))
    /\ UNCHANGED <<pc, status, query, sessionKey, closed, failure, toolCalls,
                   toolCounter, finalAnswer, trace, history, store, store0, graphVars>>
    /\ UNCHANGED restVars

\* one reader.read() that delivers n bytes, and the pass over the complete lines
RemoteRead(n) ==
    /\ pc = "read"
    /\ n \in 1..Min(MaxChunk, Len(upstream))
    /\ \E value \in {decode(decoder, SubSeq(upstream, 1, n), TRUE)} :
       \E lines \in {split(buffer \o value.text)} :
       \E st \in {ProcessLines(ParserState, Front(lines))} :
          /\ decoder' = value.pending
          /\ buffer' = Last(lines)
          /\ currentEvent' = st.currentEvent
          /\ started' = st.started
          /\ seen' = seen \cup MessageEvents(st.pairs)
          /\ out' = st.out
    /\ upstream' = SubSeq(upstream, n + 1, Len(upstream))
    /\ UNCHANGED <<pc, status, query, sessionKey, closed, failure, toolCalls,
                   toolCounter, finalAnswer, trace, history, store, store0, graphVars>>
    /\ UNCHANGED restVars

\* mutant of RemoteDone: what the buffer still holds at the end is dropped
RemoteDoneDropsRest ==
    /\ pc = "read"
    /\ upstream = <<>>
    /\ decoder' = <<>>
    /\ buffer' = <<>>
    /\ out' = send(StreamEnd(out, started), EvError(<<"controller is not defined">>))
    /\ failure' = "close"
    /\ Finally
    /\ UNCHANGED <<status, query, sessionKey, toolCalls, toolCounter, finalAnswer,
                   trace, history, store, store0, upstream, currentEvent, started, seen,
                   graphVars>>
    /\ UNCHANGED restVars

\* the read that reports done: the last lines, the closing sends, and
\* controller.close() on a name that streamFromLangSmith does not have in scope,
\* a ReferenceError that run's catch reports
RemoteDone ==
    /\ pc = "read"
    /\ upstream = <<>>
    /\ \E rest \in {decode(decoder, <<>>, FALSE)} :
       \E st \in {ProcessLines(ParserState, split(buffer \o rest.text))} :
          /\ decoder' = rest.pending
          /\ buffer' = <<>>
          /\ currentEvent' = st.currentEvent
          /\ started' = st.started
          /\ seen' = seen \cup MessageEvents(st.pairs)
          /\ out' = send(StreamEnd(st.out, st.started),
                         EvError(<<"controller is not defined">>))
    /\ failure' = "close"
    /\ Finally
    /\ UNCHANGED <<status, query, sessionKey, toolCalls, toolCounter, finalAnswer,
                   trace, history, store, store0, upstream, graphVars>>
    /\ UNCHANGED restVars

\* reader.read() rejects: the rest of the body never arrives
RemoteReadThrows ==
    /\ pc = "read"
    /\ Catch("read", <<"read failed">>)
    /\ upstream' = <<>>
    /\ UNCHANGED <<status, query, sessionKey, toolCalls, toolCounter, finalAnswer,
                   trace, history, store, store0, decoder, buffer, currentEvent,
                   started, seen, graphVars>>
    /\ UNCHANGED restVars

\* --------------------------------------------------- the graph node: runDexter
\* a graph state: its messages and its input (Undefined when absent)
HumanMessage(c) == [type |-> "human", content |-> c]
AIMessage(c) == [type |-> "ai", content |-> c]

GraphMessageKinds == { HumanMessage(<<"q", " ">>), HumanMessage(<<" ">>), AIMessage(<<"a">>) }

GraphStates ==
    [ messages : UNION { [1..n -> GraphMessageKinds] : n \in 0..MaxMessages },
      input : {<<"undefined">>, <<"q">>} ]

\* the session ids a run is configured with: none, blank, or k1
SessionIds == {"", " ", "k1"}

resolveQuery(state) ==
    LET idx == { i \in 1..Len(state.messages) :
                    state.messages[i].type \in {"human", "user"} }
    IN IF idx # {}
       THEN state.messages[CHOOSE i \in idx : \A j \in idx : j <= i].content
       ELSE IF state.input # <<"undefined">> THEN state.input
       ELSE <<>>

\* a session id is one token: trimming a blank one leaves ''
TrimId(id) == IF id = " " THEN "" ELSE id

\* mutant of resolveSessionId: the id in the state is looked at first
resolveSessionIdStateFirst(sessionId, headerSession) ==
    IF TrimId(sessionId) # "" THEN TrimId(sessionId)
    ELSE IF TrimId(headerSession) # "" THEN TrimId(headerSession)
    ELSE ""

resolveSessionId(sessionId, headerSession) ==
    IF TrimId(headerSession) # "" THEN TrimId(headerSession)
    ELSE IF TrimId(sessionId) # "" THEN TrimId(sessionId)
    ELSE ""

NoInput == <<"No input provided.">>
NoResponse == <<"No response generated.">>

\* if (!answer) { answer = 'No response generated.' }
AnswerOrDefault(a) == IF a = <<>> THEN NoResponse ELSE a

GraphInvoke(state, sessionId, headerSession) ==
    /\ pc = "idle"
    /\ LET q == Trim(resolveQuery(state))
           sid == resolveSessionId(sessionId, headerSession)
       IN IF q = <<>>
          THEN /\ result' = NoInput
               /\ pc' = "g_done"
               /\ UNCHANGED <<query, sessionKey, history, store0>>
          ELSE /\ query' = q
               /\ sessionKey' = sid
               /\ store0' = store
               /\ IF sid # ""
                  THEN /\ pc' = "g_load"
                       /\ UNCHANGED history
                  ELSE /\ pc' = "g_create"
                       /\ history' = saveUserQuery(history, q)
               /\ UNCHANGED result
    /\ UNCHANGED <<status, failure, bridgeVars, trace, store, remoteVars, answer>>
    /\ UNCHANGED restVars

GraphLoad ==
    /\ pc = "g_load"
    /\ \/ /\ history' = LoadedHistory(store, sessionKey, query)
          /\ pc' = "g_create"
          /\ UNCHANGED failure
       \/ /\ pc' = "g_failed"
          /\ failure' = "load"
          /\ UNCHANGED history
    /\ UNCHANGED <<status, query, sessionKey, bridgeVars, trace, store, store0,
                   remoteVars, graphVars>>
    /\ UNCHANGED restVars

GraphCreate ==
    /\ pc = "g_create"
    /\ \/ /\ pc' = "g_loop"
          /\ UNCHANGED failure
       \/ /\ pc' = "g_failed"
          /\ failure' = "create"
    /\ UNCHANGED <<status, query, sessionKey, bridgeVars, trace, history, store,
                   store0, remoteVars, graphVars>>
    /\ UNCHANGED restVars

\* if (event.type === 'done') { answer = event.answer }
GraphEvent(event) ==
    /\ pc = "g_loop"
    /\ Len(trace) < MaxEvents
    /\ trace' = Append(trace, event)
    /\ answer' = (IF event.type = "done" THEN event.payload ELSE answer)
    /\ UNCHANGED <<pc, status, query, sessionKey, failure, bridgeVars, history, store,
                   store0, remoteVars, result>>
    /\ UNCHANGED restVars

GraphThrows ==
    /\ pc = "g_loop"
    /\ pc' = "g_failed"
    /\ failure' = "agent"
    /\ UNCHANGED <<status, query, sessionKey, bridgeVars, trace, history, store,
                   store0, remoteVars, graphVars>>
    /\ UNCHANGED restVars

\* the for await ends; the default answer; if (sessionId) { ... }
GraphEnds ==
    /\ pc = "g_loop"
    /\ answer' = AnswerOrDefault(answer)
    /\ IF sessionKey # ""
       THEN /\ pc' = "g_save"
            /\ UNCHANGED result
       ELSE /\ pc' = "g_done"
            /\ result' = answer'
    /\ UNCHANGED <<failure, status, query, sessionKey, bridgeVars, trace, history, store,
                   store0, remoteVars>>
    /\ UNCHANGED restVars

GraphSave ==
    /\ pc = "g_save"
    /\ \/ \E s \in Summaries :
             /\ history' = saveAnswer(history, answer, s)
             /\ IF history' # <<>> /\ Last(history').answer # <<>>
                THEN /\ pc' = "g_append"
                     /\ UNCHANGED result
                ELSE /\ pc' = "g_done"
                     /\ result' = answer
             /\ UNCHANGED failure
       \/ /\ pc' = "g_failed"
          /\ failure' = "save"
          /\ UNCHANGED <<history, result>>
    /\ UNCHANGED <<status, query, sessionKey, bridgeVars, trace, store, store0,
                   remoteVars, answer>>
    /\ UNCHANGED restVars

GraphAppend ==
    /\ pc = "g_append"
    /\ \/ /\ store' = appendSessionMessage(store, sessionKey, Last(history))
          /\ pc' = "g_done"
          /\ result' = answer
          /\ UNCHANGED failure
       \/ /\ pc' = "g_failed"
          /\ failure' = "append"
          /\ UNCHANGED <<store, result>>
    /\ UNCHANGED <<status, query, sessionKey, bridgeVars, trace, history, store0,
                   remoteVars, answer>>
    /\ UNCHANGED restVars

\* --------------------------------------------------------------------- Next
\* the events the graph node is run on: it reads nothing but done events
GraphEvents ==
    { AgentEvent("done", "", a) : a \in Answers }
    \cup { AgentEvent("tool_start", "a", <<"args">>), AgentEvent("thinking", "", <<>>) }

Next ==
    \/ \E m \in Bodies, t \in Threads, r \in BOOLEAN : POST(m, t, r)
    \/ LocalLoad
    \/ LocalCreate
    \/ \E t \in Tools : ToolStart(t, <<"args">>)
    \/ \E t \in Tools : ToolEnd(t, <<"res">>)
    \/ \E t \in Tools : ToolError(t, <<"boom">>)
    \/ \E a \in Answers : Done(a)
    \/ OtherEvent
    \/ AgentThrows
    \/ AgentEnds
    \/ LocalSave
    \/ LocalAppend
    \/ RemoteFetch
    \/ \E n \in 1..MaxChunk : RemoteRead(n)
    \/ RemoteDone
    \/ RemoteReadThrows
    \/ \E g \in GraphStates, s \in SessionIds, h \in SessionIds : GraphInvoke(g, s, h)
    \/ GraphLoad
    \/ GraphCreate
    \/ \E e \in GraphEvents : GraphEvent(e)
    \/ GraphThrows
    \/ GraphEnds
    \/ GraphSave
    \/ GraphAppend

Spec == Init /\ [][Next]_vars

\* a deployment with LANGSMITH_DEPLOYMENT_URL and LANGSMITH_API_KEY set: every
\* request takes the remote transport
NextRemote ==
    \/ \E m \in Bodies, t \in Threads : POST(m, t, TRUE)
    \/ RemoteFetch
    \/ \E n \in 1..MaxChunk : RemoteRead(n)
    \/ RemoteDone
    \/ RemoteReadThrows

SpecRemote == Init /\ [][NextRemote]_vars

\* a deployment without the LangSmith variables: every request runs the agent
\* in-process
NextLocal ==
    \/ \E m \in Bodies, t \in Threads : POST(m, t, FALSE)
    \/ LocalLoad
    \/ LocalCreate
    \/ \E t \in Tools : ToolStart(t, <<"args">>)
    \/ \E t \in Tools : ToolEnd(t, <<"res">>)
    \/ \E t \in Tools : ToolError(t, <<"boom">>)
    \/ \E a \in Answers : Done(a)
    \/ OtherEvent
    \/ AgentThrows
    \/ AgentEnds
    \/ LocalSave
    \/ LocalAppend

SpecLocal == Init /\ [][NextLocal]_vars

\* the route is called again: every local of POST is new, the table is kept
NextRequest ==
    /\ pc \in {"closed", "rejected"}
    /\ Len(store) < MaxRows
    /\ pc' = "idle"
    /\ status' = 0
    /\ query' = <<>>
    /\ sessionKey' = ""
    /\ out' = <<>>
    /\ closed' = FALSE
    /\ failure' = "none"
    /\ toolCalls' = <<>>
    /\ toolCounter' = 0
    /\ finalAnswer' = <<>>
    /\ trace' = <<>>
    /\ history' = <<>>
    /\ store0' = store
    /\ sink' = "open"
    /\ refused' = <<>>
    /\ UNCHANGED <<store, remoteVars, graphVars, libsqlVars, errorVars, other>>

\* ------------------------------------------------------ the SSE line parser
\* the lines of the bodies the parser is read on: the two message events, the
\* record separator, a character of two bytes, a carriage return, a payload
\* that is not JSON
ParserLines ==
    { <<"event:", " ", "messages">>,
      <<"event:", " ", "messages/partial">>,
      <<>>,
      <<"data:", " ", "[{content:", "0xC3", "0xA9", "}]">>,
      <<"data:", " ", "[{content:Hel}]">>,
      <<"data:", " ", "[{content:Hello}]", "\r">>,
      <<"data:", " ", "{bad">> }

ParserBodies ==
    { Join(l) : l \in UNION { [1..n -> ParserLines] : n \in 0..MaxLines } }

\* the request of query 'q' on thread k1 once fetch has answered with one of
\* the bodies
InitRead(bodies) ==
    /\ pc = "read"
    /\ status = 200
    /\ query = <<"q">>
    /\ sessionKey = "k1"
    /\ out = <<EvStart, EvStartStep>>
    /\ closed = FALSE
    /\ failure = "none"
    /\ toolCalls = <<>>
    /\ toolCounter = 0
    /\ finalAnswer = <<>>
    /\ trace = <<>>
    /\ history = <<>>
    /\ store \in InitialStores
    /\ store0 = store
    /\ upstream \in bodies
    /\ decoder = <<>>
    /\ buffer = <<>>
    /\ currentEvent = <<"null">>
    /\ started = FALSE
    /\ seen = {}
    /\ answer = <<>>
    /\ result = <<>>
    /\ InitRest

InitParser == InitRead(ParserBodies)

NextParser ==
    \/ \E n \in 1..MaxChunk : RemoteRead(n)
    \/ RemoteDone

SpecParser == InitParser /\ [][NextParser]_vars

\* bodies of whole records: an event line naming one of the two message events
\* and a data line with a chunk of the top-level run (run-1) or of a tool's
\* nested run (call-1)
MessageRecords ==
    { Join(<<e, d>>) :
        e \in { <<"event:", " ", "messages">>, <<"event:", " ", "messages/partial">> },
        d \in { <<"data:", " ", "[{content:Hel,id:run-1}]">>,
                <<"data:", " ", "[{content:Hello,id:run-1}]">>,
                <<"data:", " ", "[{content:Sub,id:call-1}]">> } }

MessageBodies ==
    { Join(l) : l \in UNION { [1..n -> MessageRecords] : n \in 0..MaxRecords } }

InitMessages == InitRead(MessageBodies)

SpecMessages == InitMessages /\ [][NextParser]_vars

\* ------------------------------------------------- the store, called directly
StoreKeys == {"k1", "k2"}
StoreTurns ==
    [query : {<<"q">>, <<"r">>}, answer : {<<"A">>, <<>>}, summary : {NoSummary, <<"sum">>}]

\* one call of loadSessionMessages(k); history holds what it returned
StoreLoad(k) ==
    /\ pc \in {"idle", "loaded", "appended"}
    /\ \/ /\ history' = loadSessionMessages(store, k)
          /\ sessionKey' = k
          /\ pc' = "loaded"
          /\ UNCHANGED failure
       \/ /\ failure' = "load"
          /\ UNCHANGED <<history, sessionKey, pc>>
    /\ UNCHANGED <<status, query, bridgeVars, trace, store, store0, remoteVars, graphVars>>
    /\ UNCHANGED restVars

\* one call of appendSessionMessage(k, message)
StoreAppend(k, message) ==
    /\ pc \in {"idle", "loaded", "appended"}
    /\ Len(store) < MaxRows
    /\ \/ /\ store' = appendSessionMessage(store, k, message)
          /\ pc' = "appended"
          /\ UNCHANGED failure
       \/ /\ failure' = "append"
          /\ UNCHANGED <<store, pc>>
    /\ UNCHANGED <<status, query, sessionKey, bridgeVars, trace, history, store0,
                   remoteVars, graphVars>>
    /\ UNCHANGED restVars

NextStore ==
    \/ \E k \in StoreKeys : StoreLoad(k)
    \/ \E k \in StoreKeys, m \in StoreTurns : StoreAppend(k, m)

SpecStore == Init /\ [][NextStore]_vars

\* ---------------------------------------------------------- concurrent turns
\* the turns other requests store while this one is being served
OtherTurns == [query : {<<"r">>}, answer : {<<"B">>}, summary : {NoSummary}]

\* another request of the process reaches its appendSessionMessage: one INSERT
OtherTurnAppends(k, message) ==
    /\ Len(store) < MaxRows
    /\ store' = appendSessionMessage(store, k, message)
    /\ UNCHANGED <<pc, status, query, sessionKey, failure, bridgeVars, trace, history,
                   store0, remoteVars, graphVars>>
    /\ UNCHANGED restVars

\* one request served in-process while other requests append their turns
NextConcurrent ==
    \/ \E m \in Bodies, t \in Threads : POST(m, t, FALSE)
    \/ LocalLoad
    \/ LocalCreate
    \/ \E a \in Answers : Done(a)
    \/ AgentThrows
    \/ AgentEnds
    \/ LocalSave
    \/ LocalAppend
    \/ \E k \in StoreKeys, m \in OtherTurns : OtherTurnAppends(k, m)

SpecConcurrent == Init /\ [][NextConcurrent]_vars

\* a sequence of independent requests served in-process, one after the other
NextSession ==
    \/ \E m \in Bodies, t \in Threads : POST(m, t, FALSE)
    \/ LocalLoad
    \/ LocalCreate
    \/ \E a \in Answers : Done(a)
    \/ OtherEvent
    \/ AgentThrows
    \/ AgentEnds
    \/ LocalSave
    \/ LocalAppend
    \/ NextRequest

SpecSession == Init /\ [][NextSession]_vars

\* ------------------------------------------------------- the store's schema
\* libsql.ts (web-chat-store.ts 42-86).  A call of loadSessionMessages or
\* appendSessionMessage goes through ensureSchema and then sends its own
\* statement; it gives way at every await, so the calls of concurrent requests
\* interleave statement by statement.  `inflight` lists the calls made, each
\* with the statement it is waiting for.
CallQueries == << <<"q1">>, <<"q2">>, <<"q3">> >>

\* mutant of ensureSchema: no `if (schemaReady) return`
ensureSchemaUnguarded(ready) == "table"

\* if (schemaReady) return: the statement the call waits for first
ensureSchema(ready) == IF ready THEN "execute" ELSE "table"

\* mutant of createTable: CREATE TABLE without IF NOT EXISTS
createTableStrict(objects) ==
    [ok |-> "table" \notin objects, schema |-> objects \cup {"table"}]

\* CREATE TABLE IF NOT EXISTS web_chat_messages (...)
createTable(objects) == [ok |-> TRUE, schema |-> objects \cup {"table"}]

\* a request calls loadSessionMessages(k) or appendSessionMessage(k, message):
\* ensureSchema runs up to its first await
Begin(op, k) ==
    /\ Len(inflight) < MaxCalls
    /\ inflight' = Append(inflight,
                          [op |-> op, key |-> k, pc |-> ensureSchema(schemaReady),
                           sawReady |-> schemaReady, why |-> "none", rows |-> <<>>])
    /\ UNCHANGED <<pc, status, query, sessionKey, failure, bridgeVars, trace, history,
                   store, store0, remoteVars, graphVars, sinkVars, schemaReady, schema,
                   errorVars, other>>

\* the CREATE TABLE of call c comes back, and the CREATE INDEX is sent
TableCreated(c) ==
    /\ c \in 1..Len(inflight)
    /\ inflight[c].pc = "table"
    /\ \/ /\ createTable(schema).ok
          /\ schema' = createTable(schema).schema
          /\ inflight' = [inflight EXCEPT ![c].pc = "index"]
       \/ /\ ~createTable(schema).ok
          /\ inflight' = [inflight EXCEPT ![c].pc = "failed", ![c].why = "exists"]
          /\ UNCHANGED schema
       \/ /\ inflight' = [inflight EXCEPT ![c].pc = "failed", ![c].why = "db"]
          /\ UNCHANGED schema
    /\ UNCHANGED <<pc, status, query, sessionKey, failure, bridgeVars, trace, history,
                   store, store0, remoteVars, graphVars, sinkVars, schemaReady, errorVars, other>>

\* mutant of IndexCreated: schemaReady = true in a finally, whatever the
\* statement answered
IndexCreatedFlagAnyway(c) ==
    /\ c \in 1..Len(inflight)
    /\ inflight[c].pc = "index"
    /\ schemaReady' = TRUE
    /\ \/ /\ "table" \in schema
          /\ schema' = schema \cup {"index"}
          /\ inflight' = [inflight EXCEPT ![c].pc = "execute"]
       \/ /\ "table" \notin schema
          /\ inflight' = [inflight EXCEPT ![c].pc = "failed", ![c].why = "no table"]
          /\ UNCHANGED schema
       \/ /\ inflight' = [inflight EXCEPT ![c].pc = "failed", ![c].why = "db"]
          /\ UNCHANGED schema
    /\ UNCHANGED <<pc, status, query, sessionKey, failure, bridgeVars, trace, history,
                   store, store0, remoteVars, graphVars, sinkVars, errorVars, other>>

\* the CREATE INDEX IF NOT EXISTS of call c comes back: schemaReady = true, and
\* the call sends its own statement
IndexCreated(c) ==
    /\ c \in 1..Len(inflight)
    /\ inflight[c].pc = "index"
    /\ \/ /\ "table" \in schema
          /\ schema' = schema \cup {"index"}
          /\ schemaReady' = TRUE
          /\ inflight' = [inflight EXCEPT ![c].pc = "execute"]
       \/ /\ "table" \notin schema
          /\ inflight' = [inflight EXCEPT ![c].pc = "failed", ![c].why = "no table"]
          /\ UNCHANGED <<schema, schemaReady>>
       \/ /\ inflight' = [inflight EXCEPT ![c].pc = "failed", ![c].why = "db"]
          /\ UNCHANGED <<schema, schemaReady>>
    /\ UNCHANGED <<pc, status, query, sessionKey, failure, bridgeVars, trace, history,
                   store, store0, remoteVars, graphVars, sinkVars, errorVars, other>>

\* the SELECT or the INSERT of call c comes back
Executed(c) ==
    /\ c \in 1..Len(inflight)
    /\ inflight[c].pc = "execute"
    /\ \/ /\ "table" \in schema
          /\ inflight[c].op = "load"
          /\ inflight' = [inflight EXCEPT
                            ![c].pc = "done",
                            ![c].rows = loadSessionMessages(store, inflight[c].key)]
          /\ UNCHANGED store
       \/ /\ "table" \in schema
          /\ inflight[c].op = "append"
          /\ store' = appendSessionMessage(store, inflight[c].key,
                                           [query |-> CallQueries[c], answer |-> <<"A">>,
                                            summary |-> NoSummary])
          /\ inflight' = [inflight EXCEPT ![c].pc = "done"]
       \/ /\ "table" \notin schema
          /\ inflight' = [inflight EXCEPT ![c].pc = "failed", ![c].why = "no table"]
          /\ UNCHANGED store
       \/ /\ inflight' = [inflight EXCEPT ![c].pc = "failed", ![c].why = "db"]
          /\ UNCHANGED store
    /\ UNCHANGED <<pc, status, query, sessionKey, failure, bridgeVars, trace, history,
                   store0, remoteVars, graphVars, sinkVars, schemaReady, schema, errorVars, other>>

\* a process that has just loaded the module, on a database that is new or
\* that an earlier process has set up and written to
InitSchema ==
    /\ pc = "idle"
    /\ status = 0
    /\ query = <<>>
    /\ sessionKey = ""
    /\ out = <<>>
    /\ closed = FALSE
    /\ failure = "none"
    /\ toolCalls = <<>>
    /\ toolCounter = 0
    /\ finalAnswer = <<>>
    /\ trace = <<>>
    /\ history = <<>>
    /\ \/ schema = {} /\ store = <<>>
       \/ schema = {"table", "index"} /\ store \in InitialStores
    /\ store0 = store
    /\ upstream = <<>>
    /\ decoder = <<>>
    /\ buffer = <<>>
    /\ currentEvent = <<"null">>
    /\ started = FALSE
    /\ seen = {}
    /\ answer = <<>>
    /\ result = <<>>
    /\ sink = "open"
    /\ refused = <<>>
    /\ schemaReady = FALSE
    /\ inflight = <<>>
    /\ raw = <<>>
    /\ classified = [type |-> "none", nonRetryable |-> FALSE]
    /\ other = [toolCalls |-> <<>>, toolCounter |-> 0, out |-> <<>>, trace |-> <<>>]

NextSchema ==
    \/ \E op \in {"load", "append"}, k \in StoreKeys : Begin(op, k)
    \/ \E c \in 1..MaxCalls : TableCreated(c)
    \/ \E c \in 1..MaxCalls : IndexCreated(c)
    \/ \E c \in 1..MaxCalls : Executed(c)

SpecSchema == InitSchema /\ [][NextSchema]_vars

\* -------------------------------------------------------- the error classifier
\* An error text is a sequence of pieces, each a run of characters; the text is
\* the pieces one after the other.  Every piece but "tpm" and "TPM" starts with
\* a character that is no word character, so the only places where \b fails are
\* in front of these two.  A pattern is found where its pieces are.
Pieces ==
    { "tpm", "TPM", " Tokens Per Minute", " exceeded", ", try again", " context length",
      " quota", " deadline", " 401", " payment required", " overloaded",
      "U+4E0A U+4E0B U+6587 U+8FC7 U+957F" }

\* the texts the classifier is given: absent, empty, and up to MaxPieces pieces
RawErrors == {Undefined} \cup UNION { [1..n -> Pieces] : n \in 0..MaxPieces }

\* raw.toLowerCase()
toLowerCase(text) ==
    [ i \in 1..Len(text) |->
        CASE text[i] = "TPM" -> "tpm"
          [] text[i] = " Tokens Per Minute" -> " tokens per minute"
          [] OTHER -> text[i] ]

\* text.includes(pattern)
includes(text, pattern) ==
    \E i \in 0..(Len(text) - Len(pattern)) : SubSeq(text, i + 1, i + Len(pattern)) = pattern

\* /...piece\b/.test(text): the piece, with no word character behind it
testWord(text, piece) ==
    \E i \in 1..Len(text) :
        /\ text[i] = piece
        /\ i < Len(text) => text[i + 1] \notin {"tpm", "TPM"}

\* the fragments of the three-way rules of isContextOverflowError that lie
\* inside a piece
Within(piece) ==
    CASE piece = " context length" -> {"context"}
      [] piece = " exceeded" -> {"exceed"}
      [] piece = " request size exceeds" -> {"request size exceeds", "exceed"}
      [] piece = " max_tokens" -> {"max_tokens"}
      [] piece = " input length" -> {"input length"}
      [] piece = " 413" -> {"413"}
      [] piece = " too large" -> {"too large"}
      [] OTHER -> {}

\* lower.includes(fragment) for these fragments
includesFragment(lower, fragment) == \E i \in 1..Len(lower) : fragment \in Within(lower[i])

\* ERROR_PATTERNS: the strings, and the alternatives of the regular expressions
\* with the i flag, as lower-case patterns; `words` are the expressions that
\* end in \b
ERROR_PATTERNS ==
    [ rateLimit |->
        [ strings |-> { <<" rate limit">>, <<" rate_limit">>, <<" too many requests">>,
                        <<" 429">>, <<" model_cooldown">>, <<" cooling down">>,
                        <<" exceeded", " your current quota">>,
                        <<" resource has been exhausted">>, <<" quota", " exceeded">>,
                        <<" resource_exhausted">>, <<" usage limit">>, <<"tpm">>,
                        <<" tokens per minute">> },
          words |-> {} ],
      overloaded |->
        [ strings |-> { <<" overloaded_error">>, <<" overloaded">>,
                        <<" service unavailable">>, <<" high demand">> },
          words |-> {} ],
      timeout |->
        [ strings |-> { <<" timeout">>, <<" timed out">>, <<" deadline", " exceeded">>,
                        <<" context", " deadline", " exceeded">> },
          words |-> {} ],
      billing |->
        [ strings |-> { <<" payment required">>, <<" insufficient credits">>,
                        <<" credit balance">>, <<" insufficient balance">> },
          words |-> { " status: 402", " code=402", " http 402" } ],
      auth |->
        [ strings |-> { <<" invalid api key">>, <<" invalid_api_key">>,
                        <<" incorrect api key">>, <<" invalid token">>,
                        <<" authentication">>, <<" unauthorized">>, <<" forbidden">>,
                        <<" access denied">>, <<" no api key found">> },
          words |-> { " 401", " 403" } ],
      contextOverflow |->
        [ strings |-> { <<" context length", " exceeded">>, <<" maximum context length">>,
                        <<" this model's maximum context length">>,
                        <<" prompt is too long">>, <<" request_too_large">>,
                        <<" exceeds model context window">>, <<" context overflow">>,
                        <<" exceed context limit">>, <<" model token limit">>,
                        <<" your request", " exceeded", " model token limit">> },
          words |-> {} ] ]

CHINESE_CONTEXT_OVERFLOW ==
    { <<"U+4E0A U+4E0B U+6587 U+8FC7 U+957F">>, <<"U+4E0A U+4E0B U+6587 U+8D85 U+51FA">>,
      <<"U+8D85 U+51FA U+6700 U+5927 U+4E0A U+4E0B U+6587">> }

\* patterns.some(pattern => pattern instanceof RegExp ? pattern.test(raw)
\*                                                     : lower.includes(pattern))
matchesPatterns(text, patterns) ==
    \/ \E pattern \in patterns.strings : includes(toLowerCase(text), pattern)
    \/ \E piece \in patterns.words : testWord(toLowerCase(text), piece)

\* !raw: undefined or ''
Falsy(text) == text = Undefined \/ text = <<>>

\* mutant of isContextOverflowError: without the exclusion of "tpm" and "tokens
\* per minute"
isContextOverflowErrorNoExclusion(text) ==
    IF Falsy(text) THEN FALSE
    ELSE LET lower == toLowerCase(text)
         IN \/ matchesPatterns(text, ERROR_PATTERNS.contextOverflow)
            \/ \E msg \in CHINESE_CONTEXT_OVERFLOW : includes(text, msg)
            \/ includesFragment(lower, "request size exceeds") /\ includesFragment(lower, "context")
            \/ /\ includesFragment(lower, "max_tokens")
               /\ includesFragment(lower, "exceed")
               /\ includesFragment(lower, "context")
            \/ /\ includesFragment(lower, "input length")
               /\ includesFragment(lower, "exceed")
               /\ includesFragment(lower, "context")
            \/ includesFragment(lower, "413") /\ includesFragment(lower, "too large")

isContextOverflowError(text) ==
    IF Falsy(text) THEN FALSE
    ELSE LET lower == toLowerCase(text)
         IN IF includes(lower, <<"tpm">>) \/ includes(lower, <<" tokens per minute">>)
            THEN FALSE
            ELSE \/ matchesPatterns(text, ERROR_PATTERNS.contextOverflow)
                 \/ \E msg \in CHINESE_CONTEXT_OVERFLOW : includes(text, msg)
                 \/ /\ includesFragment(lower, "request size exceeds")
                    /\ includesFragment(lower, "context")
                 \/ /\ includesFragment(lower, "max_tokens")
                    /\ includesFragment(lower, "exceed")
                    /\ includesFragment(lower, "context")
                 \/ /\ includesFragment(lower, "input length")
                    /\ includesFragment(lower, "exceed")
                    /\ includesFragment(lower, "context")
                 \/ includesFragment(lower, "413") /\ includesFragment(lower, "too large")

isRateLimitError(text) == ~Falsy(text) /\ matchesPatterns(text, ERROR_PATTERNS.rateLimit)
isBillingError(text) == ~Falsy(text) /\ matchesPatterns(text, ERROR_PATTERNS.billing)
isAuthError(text) == ~Falsy(text) /\ matchesPatterns(text, ERROR_PATTERNS.auth)
isTimeoutError(text) == ~Falsy(text) /\ matchesPatterns(text, ERROR_PATTERNS.timeout)
isOverloadedError(text) == ~Falsy(text) /\ matchesPatterns(text, ERROR_PATTERNS.overloaded)

\* mutant of classifyError: the rate limit is looked for first
classifyErrorRateLimitFirst(text) ==
    IF Falsy(text) THEN "unknown"
    ELSE IF isRateLimitError(text) THEN "rate_limit"
    ELSE IF isContextOverflowError(text) THEN "context_overflow"
    ELSE IF isBillingError(text) THEN "billing"
    ELSE IF isAuthError(text) THEN "auth"
    ELSE IF isTimeoutError(text) THEN "timeout"
    ELSE IF isOverloadedError(text) THEN "overloaded"
    ELSE "unknown"

classifyError(text) ==
    IF Falsy(text) THEN "unknown"
    ELSE IF isContextOverflowError(text) THEN "context_overflow"
    ELSE IF isRateLimitError(text) THEN "rate_limit"
    ELSE IF isBillingError(text) THEN "billing"
    ELSE IF isAuthError(text) THEN "auth"
    ELSE IF isTimeoutError(text) THEN "timeout"
    ELSE IF isOverloadedError(text) THEN "overloaded"
    ELSE "unknown"

\* mutant of isNonRetryableError: an error of no known type is given up on too
isNonRetryableErrorOrUnknown(text) ==
    classifyError(text) \in {"context_overflow", "billing", "auth", "unknown"}

isNonRetryableError(text) ==
    classifyError(text) \in {"context_overflow", "billing", "auth"}

\* a caller classifies the text and asks whether to retry
Classify ==
    /\ classified.type = "none"
    /\ classified' = [type |-> classifyError(raw), nonRetryable |-> isNonRetryableError(raw)]
    /\ UNCHANGED <<pc, status, query, sessionKey, failure, bridgeVars, trace, history,
                   store, store0, remoteVars, graphVars, sinkVars, libsqlVars, raw, other>>

\* the process with an error text in hand
InitClassifier ==
    /\ pc = "idle"
    /\ status = 0
    /\ query = <<>>
    /\ sessionKey = ""
    /\ out = <<>>
    /\ closed = FALSE
    /\ failure = "none"
    /\ toolCalls = <<>>
    /\ toolCounter = 0
    /\ finalAnswer = <<>>
    /\ trace = <<>>
    /\ history = <<>>
    /\ store \in InitialStores
    /\ store0 = store
    /\ upstream = <<>>
    /\ decoder = <<>>
    /\ buffer = <<>>
    /\ currentEvent = <<"null">>
    /\ started = FALSE
    /\ seen = {}
    /\ answer = <<>>
    /\ result = <<>>
    /\ sink = "open"
    /\ refused = <<>>
    /\ schemaReady = TRUE
    /\ schema = {"table", "index"}
    /\ inflight = <<>>
    /\ raw \in RawErrors
    /\ classified = [type |-> "none", nonRetryable |-> FALSE]
    /\ other = [toolCalls |-> <<>>, toolCounter |-> 0, out |-> <<>>, trace |-> <<>>]

SpecClassifier == InitClassifier /\ [][Classify]_vars

\* ------------------------------------------------------ the request boundary
\* request bodies as they arrive: text that may not be JSON, and JSON whose
\* `messages` may not be an array
RawBodies ==
    { [parses |-> FALSE, isArray |-> FALSE, messages |-> <<>>],
      [parses |-> TRUE, isArray |-> FALSE, messages |-> <<>>] }
    \cup { [parses |-> TRUE, isArray |-> TRUE, messages |-> m] : m \in Bodies }

\* await req.json().catch(() => ({})); Array.isArray(body?.messages) ? ... : []
MessagesOf(body) == IF body.parses /\ body.isArray THEN body.messages ELSE <<>>

Request(body, thread, remote) == POST(MessagesOf(body), thread, remote)

\* the requests of a deployment, each served to its end: the local turn without
\* tool events, the remote one on a body of one line
NextBoundary ==
    \/ \E b \in RawBodies, t \in Threads, r \in BOOLEAN : Request(b, t, r)
    \/ LocalLoad
    \/ LocalCreate
    \/ \E a \in Answers : Done(a)
    \/ AgentThrows
    \/ AgentEnds
    \/ LocalSave
    \/ LocalAppend
    \/ RemoteFetch /\ Len(split(upstream')) = 1
    \/ \E n \in 1..MaxChunk : RemoteRead(n)
    \/ RemoteDone
    \/ RemoteReadThrows

SpecBoundary == Init /\ [][NextBoundary]_vars

\* ------------------------------------------------------ the two transports
\* a deployment reads LANGSMITH_DEPLOYMENT_URL and LANGSMITH_API_KEY from its
\* environment (route.ts 48-49); a request is served remotely when both are
\* set (65).  Every promise the turn awaits settles: the agent's iteration, the
\* store's calls, the fetch and the reads of its body.
NextTransport ==
    \/ \E m \in Bodies, t \in Threads, url \in BOOLEAN, key \in BOOLEAN : POST(m, t, url /\ key)
    \/ LocalLoad
    \/ LocalCreate
    \/ ToolStart("a", <<"args">>)
    \/ ToolEnd("a", <<"res">>)
    \/ \E a \in Answers : Done(a)
    \/ AgentThrows
    \/ AgentEnds
    \/ LocalSave
    \/ LocalAppend
    \/ RemoteFetch /\ Len(split(upstream')) <= 2
    \/ \E n \in 1..MaxChunk : RemoteRead(n)
    \/ RemoteDone
    \/ RemoteReadThrows

SpecTransport == Init /\ [][NextTransport]_vars /\ WF_vars(NextTransport)

\* ------------------------------------------------------ two turns at once
\* toolCalls, toolCounter and send are locals of one call of POST (route.ts
\* 51-58), so a second request served while the first is in its loop has its
\* own: `other` holds them, with the agent events that second turn was given.
\* the tool cases of the loop (route.ts 94-124) on the locals `st` of a turn
Correlate(st, event) ==
    IF event.type = "tool_start"
    THEN [st EXCEPT
            !.toolCounter = @ + 1,
            !.toolCalls = Append(@, [tool |-> event.tool, id |-> st.toolCounter + 1]),
            !.out = send(@, EvToolInput(st.toolCounter + 1, event.tool, event.payload))]
    ELSE IF event.type \in {"tool_end", "tool_error"}
    THEN LET r == Resolve(st.toolCalls, st.toolCounter, event.tool)
         IN [st EXCEPT
               !.toolCalls = r.calls,
               !.toolCounter = r.counter,
               !.out = send(@, EvToolOutput(r.toolId,
                                            IF event.type = "tool_end" THEN event.payload
                                            ELSE ErrorOutput(event.payload)))]
    ELSE st

ToolEvents ==
    { AgentEvent("tool_start", t, <<"args">>) : t \in Tools }
      \cup { AgentEvent("tool_end", t, <<"res">>) : t \in Tools }
      \cup { AgentEvent("tool_error", t, <<"boom">>) : t \in Tools }

\* mutant of OtherTurnEvent: toolCounter is a variable of the module, one for
\* all requests
OtherTurnEventSharedCounter(event) ==
    /\ Len(trace) + Len(other.trace) < MaxEvents
    /\ \E st \in {Correlate([other EXCEPT !.toolCounter = toolCounter], event)} :
          /\ other' = [st EXCEPT !.trace = Append(@, event)]
          /\ toolCounter' = st.toolCounter
    /\ UNCHANGED <<pc, status, query, sessionKey, out, closed, failure, toolCalls,
                   finalAnswer, trace, history, store, store0, remoteVars, graphVars,
                   sinkVars, libsqlVars, errorVars>>

\* the second turn's agent yields a tool event
OtherTurnEvent(event) ==
    /\ Len(trace) + Len(other.trace) < MaxEvents
    /\ other' = [Correlate(other, event) EXCEPT !.trace = Append(@, event)]
    /\ UNCHANGED <<pc, status, query, sessionKey, failure, bridgeVars, trace, history,
                   store, store0, remoteVars, graphVars, sinkVars, libsqlVars, errorVars>>

NextTurns ==
    \/ \E m \in Bodies : POST(m, "k1", FALSE) /\ query' = <<"q">>
    \/ LocalLoad
    \/ LocalCreate
    \/ \E t \in Tools : ToolStart(t, <<"args">>) /\ Len(trace') + Len(other.trace) <= MaxEvents
    \/ \E t \in Tools : ToolEnd(t, <<"res">>) /\ Len(trace') + Len(other.trace) <= MaxEvents
    \/ \E t \in Tools : ToolError(t, <<"boom">>) /\ Len(trace') + Len(other.trace) <= MaxEvents
    \/ \E e \in ToolEvents : OtherTurnEvent(e)

SpecTurns == Init /\ [][NextTurns]_vars

\* ------------------------------------------------------ the hosted node alone
\* runDexter invoked with a state and a run configuration whose session ids
\* are absent, blank, or one of two sessions
SpecGraph ==
    /\ Init
    /\ [][\/ \E g \in GraphStates, s \in {"", " ", "k1", "k2"}, h \in {"", " ", "k1", "k2"} :
                GraphInvoke(g, s, h)
          \/ GraphLoad
          \/ GraphCreate
          \/ \E e \in GraphEvents : GraphEvent(e)
          \/ GraphThrows
          \/ GraphEnds
          \/ GraphSave
          \/ GraphAppend]_vars

\* ----------------------------------------------------- the client goes away
\* The client disconnects: the response stream is cancelled.  The stream of
\* route.ts 57 has no cancel callback, so run goes on until it next calls
\* controller.enqueue, which throws on a cancelled stream.
ClientDisconnects ==
    /\ pc \in {"load", "create", "loop", "save", "append", "read"}
    /\ sink = "open"
    /\ sink' = "cancelled"
    /\ UNCHANGED <<pc, status, query, sessionKey, failure, bridgeVars, trace, history,
                   store, store0, remoteVars, graphVars, refused, libsqlVars, errorVars, other>>

\* a step the sink lets through: any step while the stream is open, and the
\* steps that send nothing once it is cancelled
Accepted == sink = "open" \/ out' = out

\* run's catch and finally on a cancelled stream: the events of `types` were
\* handed to controller.enqueue and refused (the last of them the catch's
\* error), and controller.close() throws as well
Refused(what, types) ==
    /\ sink = "cancelled"
    /\ refused' = refused \o types
    /\ failure' = what
    /\ out' = out
    /\ closed' = TRUE
    /\ pc' = "closed"
    /\ UNCHANGED sink

\* the first event the case of an agent event sends
FirstSent(type) ==
    CASE type = "tool_start" -> "tool-input-available"
      [] type \in {"tool_end", "tool_error"} -> "tool-output-available"
      [] type = "done" -> "text-start"

\* the agent yields an event whose case sends, and the sink is cancelled: the
\* case's first send throws into run's catch
LoopSendRefused(event) ==
    /\ pc = "loop"
    /\ Len(trace) < MaxEvents
    /\ event.type \in {"tool_start", "tool_end", "tool_error", "done"}
    /\ trace' = Append(trace, event)
    /\ CASE event.type = "tool_start" ->
              /\ toolCounter' = toolCounter + 1
              /\ toolCalls' = Append(toolCalls, [tool |-> event.tool, id |-> toolCounter + 1])
              /\ UNCHANGED finalAnswer
         [] event.type \in {"tool_end", "tool_error"} ->
              /\ toolCalls' = Resolve(toolCalls, toolCounter, event.tool).calls
              /\ toolCounter' = Resolve(toolCalls, toolCounter, event.tool).counter
              /\ UNCHANGED finalAnswer
         [] event.type = "done" ->
              /\ finalAnswer' = event.payload
              /\ UNCHANGED <<toolCalls, toolCounter>>
    /\ Refused("enqueue", <<FirstSent(event.type), "error">>)
    /\ UNCHANGED <<status, query, sessionKey, history, store, store0, remoteVars,
                   graphVars, libsqlVars, errorVars, other>>

\* where run is when each of its awaits throws
ThrowsAt ==
    [ what \in {"load", "create", "agent", "save", "append", "read"} |->
        CASE what = "load" -> "load"
          [] what = "create" -> "create"
          [] what = "agent" -> "loop"
          [] what = "save" -> "save"
          [] what = "append" -> "append"
          [] what = "read" -> "read" ]

\* an await of run throws and the sink is cancelled: the catch's error is refused
SourceThrowsRefused(what) ==
    /\ pc = ThrowsAt[what]
    /\ Refused(what, <<"error">>)
    /\ upstream' = (IF what = "read" THEN <<>> ELSE upstream)
    /\ UNCHANGED <<status, query, sessionKey, toolCalls, toolCounter, finalAnswer, trace,
                   history, store, store0, decoder, buffer, currentEvent, started, seen,
                   graphVars, libsqlVars, errorVars, other>>

\* the data line of the pair reaches a send (route.ts 259-267)
Sends(p) ==
    /\ IsMessageEvent(p.event)
    /\ JSONparse(p.data).ok
    /\ Delta(JSONparse(p.data).first) # <<>>

\* the pairs up to the first that carries a content, the one whose send throws
RECURSIVE UpToFirstContent(_)
UpToFirstContent(ps) ==
    IF ps = <<>> THEN <<>>
    ELSE IF Sends(Head(ps)) THEN <<Head(ps)>>
    ELSE <<Head(ps)>> \o UpToFirstContent(Tail(ps))

\* a read whose lines carry a content, and the sink is cancelled: the pass over
\* the lines ends at the first send, which throws out of streamFromLangSmith
\* into run's catch
RemoteReadRefused(n) ==
    /\ pc = "read"
    /\ n \in 1..Min(MaxChunk, Len(upstream))
    /\ \E value \in {decode(decoder, SubSeq(upstream, 1, n), TRUE)} :
       \E lines \in {split(buffer \o value.text)} :
       \E st \in {ProcessLines(ParserState, Front(lines))} :
       \E ps \in {UpToFirstContent(st.pairs)} :
          /\ st.out # out
          /\ decoder' = value.pending
          /\ buffer' = Last(lines)
          /\ currentEvent' = Last(ps).event
          /\ seen' = seen \cup MessageEvents(ps)
    /\ Refused("enqueue", <<IF started THEN "text-delta" ELSE "text-start", "error">>)
    /\ upstream' = SubSeq(upstream, n + 1, Len(upstream))
    /\ UNCHANGED <<status, query, sessionKey, toolCalls, toolCounter, finalAnswer, trace,
                   history, store, store0, started, graphVars, libsqlVars, errorVars, other>>

\* the read that reports done, and the sink is cancelled: the first send of the
\* last lines or, without one, of the closing sends throws into run's catch
RemoteDoneRefused ==
    /\ pc = "read"
    /\ upstream = <<>>
    /\ \E rest \in {decode(decoder, <<>>, FALSE)} :
       \E st \in {ProcessLines(ParserState, split(buffer \o rest.text))} :
       \E ps \in {UpToFirstContent(st.pairs)} :
          /\ decoder' = rest.pending
          /\ buffer' = <<>>
          /\ currentEvent' = (IF st.out # out THEN Last(ps).event ELSE st.currentEvent)
          /\ seen' = seen \cup MessageEvents(ps)
          /\ Refused("enqueue",
                     << IF st.out # out
                        THEN (IF started THEN "text-delta" ELSE "text-start")
                        ELSE (IF started THEN "text-end" ELSE "finish-step"),
                        "error" >>)
    /\ UNCHANGED <<status, query, sessionKey, toolCalls, toolCounter, finalAnswer, trace,
                   history, store, store0, upstream, started, graphVars, libsqlVars,
                   errorVars, other>>

\* the events the agent of a disconnecting client's turn yields
CancelEvents ==
    { AgentEvent("tool_start", "a", <<"args">>), AgentEvent("tool_end", "a", <<"res">>),
      AgentEvent("tool_error", "a", <<"boom">>) }
    \cup { AgentEvent("done", "", a) : a \in Answers }

\* a turn on either transport whose client may disconnect at any point: the
\* local turn from the request on, the remote one from its first read on
InitCancel == Init \/ InitRead(MessageBodies)

NextCancel ==
    \/ \E m \in Bodies, t \in Threads : POST(m, t, FALSE)
    \/ ClientDisconnects
    \/ LocalLoad /\ Accepted
    \/ LocalCreate /\ Accepted
    \/ ToolStart("a", <<"args">>) /\ Accepted
    \/ ToolEnd("a", <<"res">>) /\ Accepted
    \/ ToolError("a", <<"boom">>) /\ Accepted
    \/ \E a \in Answers : Done(a) /\ Accepted
    \/ OtherEvent
    \/ AgentThrows /\ Accepted
    \/ AgentEnds
    \/ LocalSave /\ Accepted
    \/ LocalAppend /\ Accepted
    \/ \E n \in 1..MaxChunk : RemoteRead(n) /\ Accepted
    \/ RemoteDone /\ Accepted
    \/ RemoteReadThrows /\ Accepted
    \/ \E e \in CancelEvents : LoopSendRefused(e)
    \/ \E what \in DOMAIN ThrowsAt : SourceThrowsRefused(what)
    \/ \E n \in 1..MaxChunk : RemoteReadRefused(n)
    \/ RemoteDoneRefused

SpecCancel == InitCancel /\ [][NextCancel]_vars

\* ------------------------------------------------------- reading the stream
Count(o, t) == Cardinality({ i \in 1..Len(o) : o[i].type = t })
Has(o, t) == \E i \in 1..Len(o) : o[i].type = t

\* the response is a stream and the run behind it has ended
StreamEnded == pc = "closed" /\ closed

\* C1: every stream of a non-empty query starts with exactly one start and one
\* start-step, and ends with exactly one finish-step followed by exactly one
\* finish, or with exactly one error that nothing follows.
C1_Bracketed ==
    StreamEnded =>
        /\ Len(out) >= 2
        /\ out[1].type = "start" /\ Count(out, "start") = 1
        /\ out[2].type = "start-step" /\ Count(out, "start-step") = 1
        /\ \/ /\ Len(out) >= 4
              /\ out[Len(out) - 1].type = "finish-step"
              /\ out[Len(out)].type = "finish"
              /\ Count(out, "finish-step") = 1
              /\ Count(out, "finish") = 1
           \/ /\ out[Len(out)].type = "error"
              /\ Count(out, "error") = 1

\* C2: nothing is written before start, and nothing of any type after finish.
C2_NothingOutsideStartFinish ==
    /\ out # <<>> => out[1].type = "start"
    /\ \A i \in 1..Len(out) : out[i].type = "finish" => i = Len(out)

\* C3: a stream that carries no error event carries finish-step and finish,
\* each exactly once, by the time the sink is closed.
C3_FinishOnce ==
    (StreamEnded /\ ~Has(out, "error")) =>
        /\ Count(out, "finish-step") = 1
        /\ Count(out, "finish") = 1

\* C4 as stated: in the finished stream a text-end is present if and only if
\* a text-delta is.
C4_TextEndIffDelta ==
    StreamEnded => (Has(out, "text-end") <=> Has(out, "text-delta"))

\* C4 as amended: a text-end always has a text-delta before it, and a stream
\* that reached its closing sequence (finish-step) has a text-end if and only
\* if it has a text-delta; a stream cut short by an error may lack the text-end.
C4_TextEndClosesDeltas ==
    /\ \A i \in 1..Len(out) :
          out[i].type = "text-end" => \E j \in 1..(i - 1) : out[j].type = "text-delta"
    /\ Has(out, "finish-step") => (Has(out, "text-end") <=> Has(out, "text-delta"))

C4_Witness ==
    /\ StreamEnded
    /\ started
    /\ Count(out, "text-delta") = 2
    /\ Has(out, "text-end")
    /\ Has(out, "finish-step")

\* ------------------------------------------------------ tool-call correlation
Range(f) == { f[i] : i \in DOMAIN f }
Ids(evs) == [ i \in 1..Len(evs) |-> evs[i].toolCallId ]

IsResolve(e) == e.type \in {"tool_end", "tool_error"}

\* the ids announced for tool x by tool-input-available, in stream order
InputIds(x) ==
    Ids(SelectSeq(out, LAMBDA e : e.type = "tool-input-available" /\ e.toolName = x))

\* the ids the tool-output-available events gave to the tool_end and tool_error
\* events of tool x, in stream order: the k-th output answers the k-th of them
OutputIds(x) ==
    LET outs == SelectSeq(out, LAMBDA e : e.type = "tool-output-available")
        ends == SelectSeq(trace, IsResolve)
        ks == SelectSeq([ k \in 1..Len(ends) |-> k ],
                        LAMBDA k : k <= Len(outs) /\ ends[k].tool = x)
    IN [ i \in 1..Len(ks) |-> outs[ks[i]].toolCallId ]

PendingIds(x) ==
    LET p == SelectSeq(toolCalls, LAMBDA c : c.tool = x)
    IN [ i \in 1..Len(p) |-> p[i].id ]

\* the step is the bridge handling one more agent event
Handles(types) ==
    /\ pc = "loop"
    /\ Len(trace') = Len(trace) + 1
    /\ Last(trace').type \in types

\* for every tool name the outputs matched to a start carry the announced ids
\* in the order of announcement, and the pending table holds the rest
C5_Order ==
    \A x \in Tools :
        LET matched == SelectSeq(OutputIds(x), LAMBDA id : id \in Range(InputIds(x)))
        IN /\ matched = SubSeq(InputIds(x), 1, Len(matched))
           /\ PendingIds(x) = SubSeq(InputIds(x), Len(matched) + 1, Len(InputIds(x)))

\* tool_start(x), tool_start(x), tool_end(x), tool_end(x): the two outputs carry
\* the two announced ids in the order of announcement
C5_Scenario ==
    \A x \in Tools :
        (/\ Len(trace) = 4
         /\ trace[1].type = "tool_start" /\ trace[1].tool = x
         /\ trace[2].type = "tool_start" /\ trace[2].tool = x
         /\ trace[3].type = "tool_end" /\ trace[3].tool = x
         /\ trace[4].type = "tool_end" /\ trace[4].tool = x)
        => /\ Len(InputIds(x)) = 2
           /\ InputIds(x)[1] # InputIds(x)[2]
           /\ OutputIds(x) = InputIds(x)

\* a tool_end or tool_error for x while a start of x is pending is given the id
\* of the oldest pending start of x, which leaves the table; the entries of the
\* other names stay as they are
C5_Resolve ==
    Handles({"tool_end", "tool_error"}) =>
        LET x == Last(trace').tool
        IN PendingIds(x) # <<>> =>
              /\ Last(out').type = "tool-output-available"
              /\ Last(out').toolCallId = Head(PendingIds(x))
              /\ [ i \in 1..Len(toolCalls') |-> toolCalls'[i].id ]
                   = SelectSeq([ i \in 1..Len(toolCalls) |-> toolCalls[i].id ],
                               LAMBDA id : id # Head(PendingIds(x)))
              /\ \A y \in Tools \ {x} :
                    SelectSeq(toolCalls', LAMBDA c : c.tool = y)
                      = SelectSeq(toolCalls, LAMBDA c : c.tool = y)

\* C5: tool-call correlation is first in, first out per tool name.
C5_Fifo == [](C5_Order /\ C5_Scenario) /\ [][C5_Resolve]_vars

C5_Witness ==
    /\ Len(trace) = 4
    /\ trace[1] = AgentEvent("tool_start", "a", <<"args">>)
    /\ trace[2] = AgentEvent("tool_start", "a", <<"args">>)
    /\ trace[3] = AgentEvent("tool_end", "a", <<"res">>)
    /\ trace[4] = AgentEvent("tool_end", "a", <<"res">>)
    /\ OutputIds("a") = <<1, 2>>
    /\ toolCalls = <<>>

\* every id the stream has used so far, and every id still pending
UsedIds(o) == { o[i].toolCallId : i \in 1..Len(o) } \ {NoId}

\* a tool_end or tool_error for a name with no pending start emits one
\* tool-output-available under an id used nowhere before, leaves the pending
\* table alone and does not end the stream
C6_Mint ==
    Handles({"tool_end", "tool_error"}) =>
        LET x == Last(trace').tool
        IN PendingIds(x) = <<>> =>
              /\ Len(out') = Len(out) + 1
              /\ SubSeq(out', 1, Len(out)) = out
              /\ Last(out').type = "tool-output-available"
              /\ Last(out').toolCallId # NoId
              /\ Last(out').toolCallId \notin UsedIds(out)
              /\ toolCalls' = toolCalls
              /\ pc' = "loop" /\ ~closed' /\ failure' = "none"

\* no orphan reference: the id of a tool-output-available is the id of one
\* earlier tool-input-available, or an id that no other event carries
C6_NoOrphan ==
    \A i \in 1..Len(out) :
        out[i].type = "tool-output-available" =>
            \/ /\ \E j \in 1..(i - 1) :
                     /\ out[j].type = "tool-input-available"
                     /\ out[j].toolCallId = out[i].toolCallId
               /\ \A j \in 1..Len(out) :
                     (j # i /\ out[j].toolCallId = out[i].toolCallId)
                        => out[j].type = "tool-input-available"
            \/ \A j \in 1..Len(out) : j # i => out[j].toolCallId # out[i].toolCallId

\* C6: a resolve with nothing pending mints a fresh synthetic id.
C6_Synthetic == []C6_NoOrphan /\ [][C6_Mint]_vars

C6_Witness ==
    /\ pc = "loop"
    /\ Len(trace) = 3
    /\ trace[1].type = "tool_start" /\ trace[1].tool = "a"
    /\ trace[2].type = "tool_error" /\ trace[2].tool = "b"
    /\ trace[3].type = "tool_end" /\ trace[3].tool = "b"
    /\ OutputIds("b") = <<2, 3>>
    /\ PendingIds("a") = <<1>>

\* C7: a tool_error becomes exactly one tool-output-available whose output is
\* "Error: " followed by the message, never a stream-level error, and the bridge
\* goes on consuming agent events.
C7_ToolErrorIsOutput ==
    [][Handles({"tool_error"}) =>
          /\ Len(out') = Len(out) + 1
          /\ SubSeq(out', 1, Len(out)) = out
          /\ Last(out').type = "tool-output-available"
          /\ Last(out').data = <<"Error: ">> \o Last(trace').payload
          /\ pc' = "loop" /\ ~closed' /\ failure' = "none"]_vars

\* a turn with a failed tool that went on to finish
C7_Witness ==
    /\ StreamEnded
    /\ failure = "none"
    /\ \E i \in 1..Len(trace) : trace[i].type = "tool_error"
    /\ \E i \in 1..Len(out) :
          /\ out[i].type = "tool-output-available"
          /\ out[i].data = <<"Error: ", "boom">>
    /\ out[Len(out)].type = "finish"
    /\ ~Has(out, "error")

\* C8: on done the bridge emits, one after the other, text-start, one
\* text-delta carrying the answer (the empty one too), text-end, finish-step
\* and finish with finishReason stop.
C8_DoneSequence ==
    [][Handles({"done"}) =>
          out' = out \o << EvTextStart,
                           Ev("text-delta", NoId, "", Last(trace').payload),
                           EvTextEnd,
                           EvFinishStep,
                           Ev("finish", NoId, "", <<"stop">>) >>]_vars

\* the answer was the empty string and its text-delta is in the stream
C8_Witness ==
    /\ trace = <<AgentEvent("done", "", <<>>)>>
    /\ Len(out) = 7
    /\ out[4] = EvTextDelta(<<>>)
    /\ out[7].type = "finish"

\* ------------------------------------------------------ failures and the store
\* the failures of the transport: loading the history, creating or iterating the
\* agent, the remote fetch, a refused or bodyless remote response, a remote read
TransportFailures == {"load", "create", "agent", "fetch", "response", "read"}

BridgeRunning == pc \in {"load", "create", "loop", "fetch", "read"}

\* C9: a transport failure before the turn finished emits exactly one error
\* event and no finish-step or finish, persists no turn, and closes the sink.
C9_FailureIsOneError ==
    [][(/\ BridgeRunning
        /\ failure = "none"
        /\ failure' \in TransportFailures
        /\ ~Has(out, "finish"))
       => /\ Len(out') = Len(out) + 1
          /\ SubSeq(out', 1, Len(out)) = out
          /\ Last(out').type = "error"
          /\ Count(out', "error") = 1
          /\ ~Has(out', "finish-step")
          /\ ~Has(out', "finish")
          /\ store' = store0
          /\ closed'
          /\ pc' = "closed"]_vars

\* a remote read failed after a text-delta had been passed on
C9_Witness ==
    /\ StreamEnded
    /\ failure = "read"
    /\ Has(out, "text-delta")
    /\ out[Len(out)] = EvError(<<"read failed">>)
    /\ store = store0

\* the agent yielded a as its final answer
AnswerProduced(a) ==
    /\ a # <<>>
    /\ \E i \in 1..Len(trace) : trace[i].type = "done" /\ trace[i].payload = a

\* C10: a turn is appended at most once, only in a run that did not fail, and
\* only with an answer the agent produced, never with a placeholder.
C10_AppendOnlyAnswers ==
    store # store0 =>
        /\ Len(store) = Len(store0) + 1
        /\ SubSeq(store, 1, Len(store0)) = store0
        /\ AnswerProduced(store[Len(store)].answer)
        /\ failure = "none"

\* ------------------------------------------------------------- persistence
\* the run got as far as persisting the turn: the append ran or threw, or the
\* saveAnswer before it threw
PersistAttempted ==
    \/ /\ Len(store) = Len(store0) + 1
       /\ Last(store).session = sessionKey
       /\ Last(store).query = query
    \/ failure \in {"save", "append"}

\* C11: every turn that reached finish has had an append of its (query, answer,
\* summary) attempted under its session key by the time its stream is closed,
\* also when the final answer is the empty string.
C11_FinishedIsPersisted ==
    (StreamEnded /\ Has(out, "finish")) => PersistAttempted

\* C12: when history.saveAnswer or appendSessionMessage throws after the turn
\* has emitted finish, nothing more is written to the stream (no error event,
\* no other event) and the stream closes as it does without the failure.
C12_PersistFailureSwallowed ==
    [][(/\ Has(out, "finish")
        /\ failure = "none"
        /\ failure' \in {"save", "append"})
       => /\ out' = out
          /\ closed'
          /\ pc' = "closed"]_vars

\* ------------------------------------------------------ multi-turn context
\* the positions of the rows of session k in the table
RowsOf(rows, k) == { i \in 1..Len(rows) : rows[i].session = k }

\* the history the agent is run on holds, in table order, the (query, answer)
\* of every row stored under the request's key, then the request's own query;
\* a key minted for the request finds no row
C13_Loaded ==
    pc \in {"create", "loop"} =>
        LET idx == RowsOf(store, sessionKey)
        IN /\ Len(history) = Cardinality(idx) + 1
           /\ \A i \in idx :
                 LET n == Cardinality({ j \in idx : j <= i })
                 IN /\ history[n].query = store[i].query
                    /\ history[n].answer = store[i].answer
           /\ Last(history).query = query
           /\ Last(history).answer = <<>>
           /\ sessionKey \notin Threads => Len(history) = 1

\* a turn is stored behind every earlier row, under the request's key, with the
\* request's query and the final answer, and only once finish was sent
C13_Stored ==
    store' # store =>
        /\ Len(store') = Len(store) + 1
        /\ SubSeq(store', 1, Len(store)) = store
        /\ Last(store').session = sessionKey
        /\ Last(store').query = query
        /\ Last(store').answer = finalAnswer
        /\ finalAnswer # <<>>
        /\ Has(out, "finish")

\* C13: a turn that finished with a non-empty answer and was appended under
\* key k is part of the history every later request with key k runs its agent
\* on, after the earlier turns of k; a request without a key gets a fresh key
\* and an empty history.
C13_ContextSurvives == []C13_Loaded /\ [][C13_Stored]_vars

\* a second request on k1 is about to run its agent on the earlier turn of k1
\* and the turn the first request stored
C13_Witness ==
    /\ pc = "create"
    /\ sessionKey = "k1"
    /\ Len(store) = 2
    /\ Len(history) = 3
    /\ history[1].answer = <<"A0">>
    /\ history[2].query = <<"q">>
    /\ history[2].answer = <<"A">>

\* ------------------------------------------------------- the store's order
IsPrefix(a, b) == Len(a) <= Len(b) /\ SubSeq(b, 1, Len(a)) = a

\* the turns of session k, listed by row position
TurnsOf(rows, k) ==
    LET idx == RowsOf(rows, k)
    IN [ n \in 1..Cardinality(idx) |->
           LET i == CHOOSE i \in idx : Cardinality({ j \in idx : j <= i }) = n
           IN [query |-> rows[i].query, answer |-> rows[i].answer,
               summary |-> rows[i].summary] ]

\* a load returns the turns of its key in insertion order, and what any load
\* returned stays a prefix of what the table holds for that key
C14_Ordered ==
    /\ pc = "loaded" => history = TurnsOf(store, sessionKey)
    /\ sessionKey \in StoreKeys => IsPrefix(history, TurnsOf(store, sessionKey))

\* no step changes or removes a stored row, and each key's turns only grow
C14_Kept ==
    /\ IsPrefix(store, store')
    /\ \A k \in StoreKeys : IsPrefix(TurnsOf(store, k), TurnsOf(store', k))

\* C14: the store is append-only and ordered: load returns a key's turns in
\* insertion order, every later result for the key extends every earlier one,
\* and no operation modifies or removes a stored turn.
C14_AppendOnly == []C14_Ordered /\ [][C14_Kept]_vars

\* k1 was loaded after a turn of k2 and a second turn of k1 were appended
C14_Witness ==
    /\ pc = "loaded"
    /\ sessionKey = "k1"
    /\ Len(store) = 3
    /\ store[2].session = "k2"
    /\ Len(history) = 2
    /\ history[1].query = <<"q0">>

\* -------------------------------------------------------- concurrent appends
AllKeys == StoreKeys \cup Threads \cup Range(UuidPool)

\* an append, whoever makes it, puts one row behind the rows present, adds that
\* turn to the end of its key's turns and leaves every other key's turns alone
C15_Append ==
    store' # store =>
        /\ Len(store') = Len(store) + 1
        /\ IsPrefix(store, store')
        /\ \A k \in AllKeys :
              TurnsOf(store', k) =
                  IF k = Last(store').session
                  THEN Append(TurnsOf(store, k), Message(Last(store')))
                  ELSE TurnsOf(store, k)

\* the request's own turn
OwnRow ==
    [session |-> sessionKey, query |-> query, answer |-> finalAnswer,
     summary |-> Last(history).summary]

\* once the request has stored its turn, the table holds it exactly once,
\* whatever the other requests appended in the meantime
C15_Once ==
    (StreamEnded /\ failure = "none" /\ finalAnswer # <<>>) =>
        Cardinality({ i \in 1..Len(store) : store[i] = OwnRow }) = 1

\* C15: appends of concurrent turns do not corrupt each other: an append under
\* one key leaves what load returns for every other key unchanged, and turns
\* appended concurrently under one key are all there, intact, once each, in the
\* order their appends arrived.
C15_NonCorrupting == []C15_Once /\ [][C15_Append]_vars

\* another turn of k1 was appended after this request had loaded its history
\* and before it appended its own turn
C15_Witness ==
    /\ StreamEnded
    /\ failure = "none"
    /\ sessionKey = "k1"
    /\ Len(history) = 2
    /\ Len(store) = 3
    /\ store[2].session = "k1" /\ store[2].query = <<"r">>
    /\ store[3] = OwnRow

\* ------------------------------------------------------- chunk boundaries
\* what the loop does from here when all the bytes still to come arrive in one
\* chunk: the pairs it reads and the loop's variables after them
RestOf(bytes, pending, buf, event, wasStarted, o) ==
    LET value == decode(pending, bytes, FALSE)
    IN ProcessLines([currentEvent |-> event, started |-> wasStarted, out |-> o,
                     pairs |-> <<>>],
                    split(buf \o value.text))

Rest == RestOf(upstream, decoder, buffer, currentEvent, started, out)

\* a read that delivers a part of what is to come reads a first part of the
\* pairs, writes what they give, and leaves the remainder of the pairs and the
\* same outcome to the reads after it
C16_Read ==
    (pc = "read" /\ pc' = "read") =>
        LET n == Len(upstream) - Len(upstream')
            value == decode(decoder, SubSeq(upstream, 1, n), TRUE)
            now == ProcessLines(ParserState, Front(split(buffer \o value.text)))
            after == RestOf(upstream', decoder', buffer', currentEvent', started', out')
        IN /\ out' = now.out
           /\ Rest = [after EXCEPT !.pairs = now.pairs \o @]

\* the read that reports the end writes what is left of that outcome
C16_End ==
    (pc = "read" /\ pc' = "closed") =>
        /\ IsPrefix(Rest.out, out')
        /\ started' = Rest.started

\* C16: however the body is cut into chunks, also inside a line or inside a
\* character of several bytes, the (event, data) pairs read and the events
\* written are those of the body arriving as one chunk.
C16_ChunkInsensitive == [][C16_Read /\ C16_End]_vars

\* a chunk ended inside the two-byte character of a data line under `messages`
C16_Witness ==
    /\ pc = "read"
    /\ currentEvent = <<"messages">>
    /\ decoder = <<"0xC3">>
    /\ buffer = <<"data:", " ", "[{content:">>
    /\ Len(upstream) >= 2
    /\ ~started

\* ------------------------------------------------------- malformed payloads
\* a data line whose payload JSON.parse rejects
IsMalformed(rawLine) ==
    LET line == TrimEnd(rawLine)
    IN /\ line # <<>>
       /\ line[1] = "data:"
       /\ Trim(Tail(line)) # <<>>
       /\ ~JSONparse(Trim(Tail(line))).ok

RECURSIVE MapLines(_)
\* the lines with every malformed data line replaced by a comment line
MapLines(ls) ==
    IF ls = <<>> THEN <<>>
    ELSE <<IF IsMalformed(Head(ls)) THEN <<":">> ELSE Head(ls)>> \o MapLines(Tail(ls))

WellFormed(ps) == SelectSeq(ps, LAMBDA p : JSONparse(p.data).ok)

\* at a line start, what is still to come gives the events, the event name, the
\* started flag and the well-formed pairs it gives with its malformed data
\* lines replaced by lines the parser ignores
C17_AsIgnored ==
    (pc = "read" /\ buffer = <<>> /\ decoder = <<>>) =>
        LET text == decode(decoder, upstream, FALSE).text
            clean == RestOf(Join(MapLines(split(text))), decoder, buffer,
                            currentEvent, started, out)
        IN /\ Rest.out = clean.out
           /\ Rest.started = clean.started
           /\ Rest.currentEvent = clean.currentEvent
           /\ WellFormed(Rest.pairs) = clean.pairs

\* a read whose one completed line is a malformed data line writes nothing,
\* keeps the event name and the started flag, holds the rest of the chunk back
\* as ever, and the run reads on
C17_Silent ==
    (pc = "read" /\ pc' = "read") =>
        LET n == Len(upstream) - Len(upstream')
            value == decode(decoder, SubSeq(upstream, 1, n), TRUE)
            lines == split(buffer \o value.text)
        IN (Len(lines) = 2 /\ IsMalformed(lines[1])) =>
               /\ out' = out
               /\ currentEvent' = currentEvent
               /\ started' = started
               /\ buffer' = lines[2]
               /\ failure' = "none"
               /\ ~closed'

\* C17: a data line whose payload is not valid JSON is dropped silently: it
\* writes no event, leaves the current event name and the buffering as they
\* are, and the well-formed lines after it are processed as without it.
C17_DroppedSilently == []C17_AsIgnored /\ [][C17_Silent]_vars

\* a malformed data line under `messages` is complete but for its line feed,
\* and a well-formed data line follows it
C17_Witness ==
    /\ pc = "read"
    /\ currentEvent = <<"messages">>
    /\ buffer = <<"data:", " ", "{bad">>
    /\ upstream = <<"\n", "data:", " ", "[{content:Hello}]", "\r">>
    /\ ~started

\* ------------------------------------------------------------ remote deltas
\* the content of a pair read under `messages` or `messages/partial`: <<>> when
\* the pair carries none
ContentOf(p) ==
    IF IsMessageEvent(p.event) /\ JSONparse(p.data).ok
    THEN Delta(JSONparse(p.data).first)
    ELSE <<>>

RECURSIVE ContentsOf(_)
\* the non-empty contents of the pairs, in the order of the pairs
ContentsOf(ps) ==
    IF ps = <<>> THEN <<>>
    ELSE (IF ContentOf(Head(ps)) # <<>> THEN <<ContentOf(Head(ps))>> ELSE <<>>)
         \o ContentsOf(Tail(ps))

\* the deltas of the text-delta events written, in order
TextDeltas(o) ==
    LET ds == SelectSeq(o, LAMBDA e : e.type = "text-delta")
    IN [ i \in 1..Len(ds) |-> ds[i].data ]

\* a read adds one text-delta per non-empty content among the pairs it read,
\* each carrying that content, in the order of the pairs
C18_Read ==
    (pc = "read" /\ failure' # "read") =>
        LET done == pc' = "closed"
            n == Len(upstream) - Len(upstream')
            value == decode(decoder, SubSeq(upstream, 1, n), ~done)
            lines == split(buffer \o value.text)
            now == ProcessLines(ParserState, IF done THEN lines ELSE Front(lines))
        IN /\ TextDeltas(out') = TextDeltas(out) \o ContentsOf(now.pairs)
           /\ Count(out', "text-start") = (IF TextDeltas(out') = <<>> THEN 0 ELSE 1)

\* a stream read to its end whose deltas are "Hel" and "Hello" carries
\* text-start, the two deltas, text-end, finish-step and finish, in this order
C18_HelHello ==
    (StreamEnded /\ failure = "close" /\ TextDeltas(out) = << <<"Hel">>, <<"Hello">> >>) =>
        SubSeq(out, 3, 8) = <<EvTextStart, EvTextDelta(<<"Hel">>), EvTextDelta(<<"Hello">>),
                               EvTextEnd, EvFinishStep, EvFinish>>

\* C18: on the remote transport every message event with a non-empty content
\* gives exactly one text-delta with that content unchanged, in arrival order
\* (contents are passed on as they come, not as differences), so "Hel" then
\* "Hello" then the end of the stream give text-start, text-delta "Hel",
\* text-delta "Hello", text-end, finish-step, finish.
C18_RawDeltas == []C18_HelHello /\ [][C18_Read]_vars

\* the stream of two messages/partial contents "Hel" and "Hello", read to its end
C18_Witness ==
    /\ StreamEnded
    /\ failure = "close"
    /\ currentEvent = <<"messages/partial">>
    /\ TextDeltas(out) = << <<"Hel">>, <<"Hello">> >>
    /\ Has(out, "finish")

\* ------------------------------------------------------- first partial wins
RECURSIVE FirstPartialWins(_, _)
\* the deltas the pairs give under the policy: every non-empty content read
\* under `messages/partial`, and those read under `messages` before any pair
\* was read under `messages/partial`
FirstPartialWins(ps, partialSeen) ==
    IF ps = <<>> THEN <<>>
    ELSE LET p == Head(ps)
             partial == p.event = <<"messages/partial">>
         IN (IF ContentOf(p) # <<>> /\ (partial \/ ~partialSeen)
             THEN <<ContentOf(p)>> ELSE <<>>)
            \o FirstPartialWins(Tail(ps), partialSeen \/ partial)

\* C19: once a messages/partial event has been observed in the turn, no later
\* `messages` event gives a text-delta; `messages` events give deltas only
\* while no partial event has been observed.
C19_FirstPartialWins ==
    [][pc = "read" =>
        LET done == pc' = "closed"
            n == Len(upstream) - Len(upstream')
            value == decode(decoder, SubSeq(upstream, 1, n), ~done)
            lines == split(buffer \o value.text)
            now == ProcessLines(ParserState, IF done THEN lines ELSE Front(lines))
        IN TextDeltas(out') =
               TextDeltas(out) \o FirstPartialWins(now.pairs, "messages/partial" \in seen)]_vars

\* ------------------------------------------------------------ top-level run
\* the id of a message of the top-level run starts with the run marker
IsTopLevel(id) == id # <<>> /\ id[1] = "run-"

\* the contents of the chunks of nested runs
NestedContents ==
    { RunDocs[t].content : t \in { d \in DOMAIN RunDocs : ~IsTopLevel(RunDocs[d].id) } }

\* C20: only messages of the top-level run (told by the marker prefix of their
\* id) give text-delta events; a message of a nested run gives neither a
\* text-start nor a text-delta.
C20_TopLevelOnly ==
    \A i \in 1..Len(out) :
        /\ out[i].type = "text-delta" => out[i].data \notin NestedContents
        /\ out[i].type = "text-start" =>
               (i < Len(out) /\ out[i + 1].data \notin NestedContents)

\* ------------------------------------------------------------- cancellation
\* C21: once the sink has refused a write, the bridge attempts no further write
\* of any event, the error event included, and reads no further agent event
\* and no further upstream byte.
C21_StopsOnRefusedWrite ==
    /\ [](Len(refused) <= 1)
    /\ [][refused # <<>> => UNCHANGED <<refused, trace, upstream>>]_vars

\* ------------------------------------------------------------ empty queries
\* nothing but white space, or nothing at all
Blank(text) == \A i \in 1..Len(text) : IsSpace(text[i])

\* the body has no message of role user: it does not parse, it has no array of
\* messages, or none of its messages is a user's
NoUserMessage(body) ==
    \/ ~body.parses
    \/ ~body.isArray
    \/ \A i \in 1..Len(body.messages) : body.messages[i].role # "user"

\* the response is the client error and nothing else has happened: no event,
\* no stream closed, no key, no transport, no history, no agent event, no row
NothingTouched ==
    /\ status = 400
    /\ out = <<>>
    /\ ~closed
    /\ sessionKey = ""
    /\ history = <<>>
    /\ trace = <<>>
    /\ upstream = <<>>
    /\ store = store0
    /\ failure = "none"

\* a request whose last user message has a blank text, or that has no user
\* message, ends as the client error, and one with a text that is not blank
\* does not
C22_Rejects ==
    \A b \in RawBodies, t \in Threads, r \in BOOLEAN :
        Request(b, t, r) =>
            /\ NoUserMessage(b) => pc' = "rejected"
            /\ Blank(extractUserText(MessagesOf(b))) <=> pc' = "rejected"
            /\ pc' = "rejected" => (NothingTouched' /\ store' = store)

\* C22: a request whose query is empty or only white space after trimming (no
\* user message and an unparseable body included) is rejected with a client
\* error before any protocol event: no stream, no transport, and neither the
\* store nor the agent is touched.
C22_EmptyQueryRejected ==
    /\ [](pc = "rejected" => NothingTouched)
    /\ [][C22_Rejects]_vars

\* a request was rejected
C22_Witness ==
    /\ pc = "rejected"
    /\ status = 400
    /\ out = <<>>

\* ----------------------------------------------------------- classification
Taxonomy ==
    {"context_overflow", "rate_limit", "billing", "auth", "timeout", "overloaded", "unknown"}

Precedence == <<"context_overflow", "rate_limit", "billing", "auth", "timeout", "overloaded">>

\* the rule set of the category matches the text
Matches(category, text) ==
    CASE category = "context_overflow" -> isContextOverflowError(text)
      [] category = "rate_limit" -> isRateLimitError(text)
      [] category = "billing" -> isBillingError(text)
      [] category = "auth" -> isAuthError(text)
      [] category = "timeout" -> isTimeoutError(text)
      [] category = "overloaded" -> isOverloadedError(text)

\* the first category of the precedence whose rule set matches, unknown if
\* there is none
FirstMatch(text) ==
    LET idx == { i \in 1..Len(Precedence) : Matches(Precedence[i], text) }
    IN IF idx = {} THEN "unknown"
       ELSE Precedence[CHOOSE i \in idx : \A j \in idx : i <= j]

Classified == classified.type # "none"

\* C23: classify is total and first match wins in the precedence
\* context_overflow, rate_limit, billing, auth, timeout, overloaded, unknown:
\* every text, the absent and the empty one too, gets exactly one category,
\* the first whose rule set matches it; unknown exactly when none matches; the
\* absent text is unknown.
C23_FirstMatchWins ==
    Classified =>
        /\ classified.type \in Taxonomy
        /\ classified.type = FirstMatch(raw)
        /\ classified.type = "unknown" <=> \A c \in Range(Precedence) : ~Matches(c, raw)
        /\ Falsy(raw) => classified.type = "unknown"

\* a text that the rule sets of context_overflow and rate_limit both match
C23_Witness ==
    /\ Classified
    /\ raw = <<"U+4E0A U+4E0B U+6587 U+8FC7 U+957F", " quota", " exceeded">>
    /\ Matches("context_overflow", raw)
    /\ Matches("rate_limit", raw)
    /\ classified.type = "context_overflow"

\* the text contains "tpm" or "tokens per minute", in whatever case
MentionsTpm(text) ==
    /\ text # Undefined
    /\ \E i \in 1..Len(text) : toLowerCase(text)[i] \in {"tpm", " tokens per minute"}

\* C24: a text that contains "tpm" or "tokens per minute", in any case, is
\* never context_overflow, also when a context-overflow pattern matches it, and
\* is rate_limit; "tpm exceeded, try again" is rate_limit.
C24_TpmIsRateLimit ==
    /\ classifyError(<<"tpm", " exceeded", ", try again">>) = "rate_limit"
    /\ (Classified /\ MentionsTpm(raw)) => classified.type = "rate_limit"

\* an upper-case TPM in a text that a context-overflow pattern matches
C24_Witness ==
    /\ Classified
    /\ raw = <<"TPM", " context length", " exceeded">>
    /\ matchesPatterns(raw, ERROR_PATTERNS.contextOverflow)
    /\ classified.type = "rate_limit"

\* C25: whether an error is retried depends on its classification alone: it is
\* not retried exactly when it is context_overflow, billing or auth, and it is
\* retried when it is rate_limit, timeout, overloaded or unknown, the absent
\* text included.
C25_RetryByClass ==
    Classified =>
        /\ classified.nonRetryable <=> classified.type \in {"context_overflow", "billing", "auth"}
        /\ ~classified.nonRetryable <=>
              classified.type \in {"rate_limit", "timeout", "overloaded", "unknown"}
        /\ Falsy(raw) => ~classified.nonRetryable

\* the absent text was classified unknown and is retried
C25_Witness ==
    /\ Classified
    /\ raw = Undefined
    /\ classified = [type |-> "unknown", nonRetryable |-> FALSE]

\* ------------------------------------------------------- the schema-ready flag
FullSchema == {"table", "index"}

\* the flag is false until a call is made, and true only over a full schema
C26_Flag ==
    /\ inflight = <<>> => ~schemaReady
    /\ schemaReady => schema = FullSchema

\* call c runs one of the two schema-creation statements in this step
RunsSchemaStatement(c) ==
    /\ c \in 1..Len(inflight)
    /\ inflight[c].pc \in {"table", "index"}
    /\ inflight'[c].pc # inflight[c].pc
    /\ inflight'[c].why # "db"

\* the flag never goes back to false, and it goes to true in the step in
\* which a call's CREATE INDEX, the last statement of the creation, succeeded
C26_OneWay ==
    /\ schemaReady => schemaReady'
    /\ (~schemaReady /\ schemaReady') =>
          \E c \in 1..Len(inflight) :
              /\ inflight[c].pc = "index"
              /\ inflight'[c].pc = "execute"
              /\ schema' = FullSchema

\* C26 as stated: the flag starts false, becomes true only after a schema
\* creation completed successfully, never returns to false, and once it is
\* true no load or append runs a schema-creation statement again.
C26_NoStatementOnceReady ==
    /\ []C26_Flag
    /\ [][C26_OneWay /\ (schemaReady => \A c \in 1..MaxCalls : ~RunsSchemaStatement(c))]_vars

\* C26 as amended: the flag starts false, becomes true only after a schema
\* creation completed successfully, never returns to false, and a load or
\* append that finds it true runs no schema-creation statement; a call that
\* found it false runs both of its statements, also when another call has set
\* the flag in the meantime.
C26_OneWayFlag ==
    /\ [](C26_Flag /\ \A c \in 1..Len(inflight) :
                         inflight[c].sawReady => inflight[c].pc \notin {"table", "index"})
    /\ [][C26_OneWay /\ \A c \in 1..MaxCalls :
                            RunsSchemaStatement(c) => ~inflight[c].sawReady]_vars

\* the second call found the flag the first had set and went straight to its
\* own statement
C26_Witness ==
    /\ schemaReady
    /\ Len(inflight) = 2
    /\ ~inflight[1].sawReady /\ inflight[1].pc = "done"
    /\ inflight[2].sawReady /\ inflight[2].pc = "done"

\* ----------------------------------------------------- concurrent first use
AppendsDone == { c \in 1..Len(inflight) : inflight[c].op = "append" /\ inflight[c].pc = "done" }

RowOf(c) ==
    [session |-> inflight[c].key, query |-> CallQueries[c], answer |-> <<"A">>,
     summary |-> NoSummary]

\* C27: the lazy initialization is idempotent under concurrent first use:
\* however the calls that began while the flag was false interleave, no call
\* fails on the schema (its statement finds the table, and a creation is not
\* refused for being repeated), a call that completed leaves the flag true and
\* the schema as one initialization makes it, and the table holds the rows it
\* had plus one row per completed append, as after one initialization.
C27_IdempotentInit ==
    /\ \A c \in 1..Len(inflight) : inflight[c].pc = "failed" => inflight[c].why = "db"
    /\ (\E c \in 1..Len(inflight) : inflight[c].pc = "done") =>
          (schemaReady /\ schema = FullSchema)
    /\ IsPrefix(store0, store)
    /\ Len(store) = Len(store0) + Cardinality(AppendsDone)
    /\ \A c \in AppendsDone :
          Cardinality({ i \in 1..Len(store) : store[i] = RowOf(c) }) = 1
    /\ \A c \in 1..Len(inflight) :
          (inflight[c].op = "load" /\ inflight[c].pc = "done") =>
              IsPrefix(inflight[c].rows, loadSessionMessages(store, inflight[c].key))

\* on a new database an append and a load of k1 both began while the flag was
\* false, both ran the creation, and both completed; the load saw the row
C27_Witness ==
    /\ store0 = <<>>
    /\ Len(inflight) = 2
    /\ ~inflight[1].sawReady /\ inflight[1].op = "append" /\ inflight[1].pc = "done"
    /\ ~inflight[2].sawReady /\ inflight[2].op = "load" /\ inflight[2].pc = "done"
    /\ inflight[2].rows = <<[query |-> <<"q1">>, answer |-> <<"A">>, summary |-> NoSummary]>>
    /\ schemaReady

\* ------------------------------------------------- close and persistence
\* C28: the close of the stream does not wait on persistence: while the
\* append of a turn that has sent finish is still awaited, the sink is
\* already closed.
C28_CloseDoesNotWait ==
    (pc = "append" /\ Has(out, "finish")) => closed

\* ------------------------------------------------ the remote text block
Before(o, i, t) == \E j \in 1..(i - 1) : o[j].type = t

\* C29: on the remote transport text-start is sent lazily and at most once:
\* it stands immediately before the first text-delta of the turn, it is not
\* sent when no non-empty delta was extracted, every text-delta is non-empty
\* and has it before it, and text-end is sent only after it.
C29_LazyTextStart ==
    /\ Count(out, "text-start") <= 1
    /\ started <=> Has(out, "text-start")
    /\ \A i \in 1..Len(out) :
          /\ out[i].type = "text-start" =>
                /\ i < Len(out)
                /\ out[i + 1].type = "text-delta"
                /\ ~Before(out, i, "text-delta")
          /\ out[i].type = "text-delta" =>
                /\ out[i].data # <<>>
                /\ Before(out, i, "text-start")
          /\ out[i].type = "text-end" => Before(out, i, "text-start")

\* a remote turn of two contents: one text-start, two deltas, one text-end
C29_Witness ==
    /\ pc = "closed"
    /\ Count(out, "text-start") = 1
    /\ Count(out, "text-delta") = 2
    /\ Count(out, "text-end") = 1

\* ------------------------------------------------ call ids and the table
IsInput(e) == e.type = "tool-input-available"
IsOutput(e) == e.type = "tool-output-available"

\* the announcements of the stream whose id no tool-output-available carries,
\* in the order sent, as the table's entries
Unresolved(o) ==
    LET open(e) == IsInput(e) /\ \A j \in 1..Len(o) : IsOutput(o[j]) => o[j].toolCallId # e.toolCallId
        es == SelectSeq(o, open)
    IN [ k \in 1..Len(es) |-> [tool |-> es[k].toolName, id |-> es[k].toolCallId] ]

\* C30: within one outbound stream the minted call ids are pairwise distinct
\* (no two tool-input-available share an id, no two tool-output-available
\* share one, and an id first seen in an output is never announced later), and
\* at every point the pending table holds exactly the announced ids that no
\* tool-output-available carries yet, in start order.
C30_IdsAndTable ==
    /\ \A i, j \in 1..Len(out) :
          (i < j /\ out[i].toolCallId = out[j].toolCallId /\ out[i].toolCallId # NoId)
              => (IsInput(out[i]) /\ IsOutput(out[j]))
    /\ \A i \in 1..Len(out) : (IsInput(out[i]) \/ IsOutput(out[i])) => out[i].toolCallId # NoId
    /\ toolCalls = Unresolved(out)

\* start a, start b, end a, end a: ids 1 and 2 announced, 1 resolved, 3 minted
\* for the end that found nothing, and the table holds b's entry alone
C30_Witness ==
    /\ Len(trace) = 4
    /\ Count(out, "tool-input-available") = 2
    /\ Count(out, "tool-output-available") = 2
    /\ Last(out).toolCallId = 3
    /\ toolCalls = <<[tool |-> "b", id |-> 2]>>

\* ---------------------------------------------------- the event name's scope
IsBlank(rawLine) == TrimEnd(rawLine) = <<>>
IsEventLine(rawLine) == ~IsBlank(rawLine) /\ TrimEnd(rawLine)[1] = "event:"
IsDataLine(rawLine) == ~IsBlank(rawLine) /\ TrimEnd(rawLine)[1] = "data:"

\* the event name in force at line i of a pass that began under `event`: the
\* name of the nearest event line above it, absent when a blank line is nearer
NameAt(lines, i, event) ==
    LET marks == { j \in 1..(i - 1) : IsBlank(lines[j]) \/ IsEventLine(lines[j]) }
    IN IF marks = {} THEN event
       ELSE LET j == CHOOSE k \in marks : \A m \in marks : m <= k
            IN IF IsBlank(lines[j]) THEN Null ELSE Trim(Tail(TrimEnd(lines[j])))

\* the data lines of the pass that carry a payload, each with the name in force
ScopedPairs(lines, event) ==
    LET ds == { i \in 1..Len(lines) : IsDataLine(lines[i]) /\ Trim(Tail(TrimEnd(lines[i]))) # <<>> }
        at(k) == CHOOSE i \in ds : Cardinality({ j \in ds : j <= i }) = k
    IN [ k \in 1..Cardinality(ds) |->
           Pair(NameAt(lines, at(k), event), Trim(Tail(TrimEnd(lines[at(k)])))) ]

\* C31: an event line sets the current event name for the lines after it
\* until a blank line resets it to absent; every data line is read under the
\* name in force at that line, so a data line between a blank line and the next
\* event line has no name and gives no text-delta; a pass over lines that are
\* neither event, data nor blank lines changes nothing.
C31_EventScope ==
    [][(pc = "read" /\ failure' # "read") =>
          \E done \in {pc' = "closed"} :
          \E value \in {decode(decoder, SubSeq(upstream, 1, Len(upstream) - Len(upstream')), ~done)} :
          \E all \in {split(buffer \o value.text)} :
          \E lines \in {IF done THEN all ELSE Front(all)} :
          \E pairs \in {ScopedPairs(lines, currentEvent)} :
             /\ currentEvent' = NameAt(lines, Len(lines) + 1, currentEvent)
             /\ TextDeltas(out') = TextDeltas(out) \o ContentsOf(pairs)
             /\ \A k \in 1..Len(pairs) : pairs[k].event = Null => ContentOf(pairs[k]) = <<>>
             /\ (~done /\ \A i \in 1..Len(lines) :
                    ~IsBlank(lines[i]) /\ ~IsEventLine(lines[i]) /\ ~IsDataLine(lines[i]))
                   => (out' = out /\ currentEvent' = currentEvent /\ started' = started)]_vars

\* `event: messages`, a data line with content Hel, and a blank line read to
\* the end: the delta was read under the name, and the name is absent again
C31_Witness ==
    /\ StreamEnded
    /\ failure = "close"
    /\ seen = {"messages"}
    /\ TextDeltas(out) = << <<"Hel">> >>
    /\ currentEvent = Null

\* ------------------------------------------------------ the end of the body
\* C32: at the end of the upstream body what the buffer still holds is
\* processed as if a line feed had followed it: the read that reports the end
\* writes what a read of that text and a line feed writes, a last data line
\* without a line feed gives its delta once, and the buffer is empty afterwards.
C32_FlushAtEnd ==
    [][(pc = "read" /\ failure' = "close") =>
          \E rest \in {decode(decoder, <<>>, FALSE)} :
          \E left \in {buffer \o rest.text} :
          \E fed \in {ProcessLines(ParserState, Front(split(left \o <<"\n">>)))} :
             /\ buffer' = <<>>
             /\ decoder' = <<>>
             /\ out' = send(StreamEnd(fed.out, fed.started), EvError(<<"controller is not defined">>))
             /\ currentEvent' = fed.currentEvent
             /\ started' = fed.started
             /\ TextDeltas(out') = TextDeltas(out) \o ContentsOf(ScopedPairs(<<left>>, currentEvent))]_vars

\* the body ended with the data line of content Hel and no line feed after it;
\* its delta is there once, after that of the line before it
C32_Witness ==
    /\ StreamEnded
    /\ failure = "close"
    /\ buffer = <<>>
    /\ currentEvent = <<"messages">>
    /\ TextDeltas(out) = << <<"Hello">>, <<"Hel">> >>

\* ------------------------------------------------- a creation that fails
\* call c's CREATE TABLE or CREATE INDEX fails in this step
CreationFails(c) ==
    /\ c \in 1..Len(inflight)
    /\ inflight[c].pc \in {"table", "index"}
    /\ inflight'[c].pc = "failed"

\* a call that failed stays failed, returned no rows and, if an append, left
\* no row in the table
C33_NothingWritten ==
    \A c \in 1..Len(inflight) :
        inflight[c].pc = "failed" =>
            /\ inflight[c].rows = <<>>
            /\ inflight[c].op = "append" => \A i \in 1..Len(store) : store[i] # RowOf(c)

\* C33: a schema creation that fails makes the load or append that ran it
\* fail with nothing written, leaves the schema-ready flag as it was (false,
\* unless another call has completed a creation), and the next load or append
\* that finds the flag false runs the creation again.
C33_CreationFailure ==
    /\ []C33_NothingWritten
    /\ [][/\ \A c \in 1..MaxCalls :
                CreationFails(c) =>
                    /\ store' = store
                    /\ schemaReady' = schemaReady
                    /\ schema' = schema
          /\ \A c \in 1..Len(inflight) : inflight[c].pc = "failed" => inflight'[c] = inflight[c]
          /\ (Len(inflight') = Len(inflight) + 1 /\ ~schemaReady) =>
                Last(inflight').pc = "table"]_vars

\* on a new database the append's creation failed and nothing was written;
\* the load after it found the flag false, ran the creation and read no row
C33_Witness ==
    /\ store0 = <<>>
    /\ store = <<>>
    /\ Len(inflight) = 2
    /\ inflight[1].op = "append" /\ inflight[1].pc = "failed" /\ inflight[1].why = "db"
    /\ inflight[2].op = "load" /\ inflight[2].pc = "done" /\ ~inflight[2].sawReady
    /\ schemaReady

\* ---------------------------------------------------- one transport a turn
RemotePcs == {"fetch", "read"}
LocalPcs == {"load", "create", "loop", "save", "append"}

NoToolEvent(o) == \A i \in 1..Len(o) : ~IsInput(o[i]) /\ ~IsOutput(o[i])

\* a turn on the remote transport has loaded no history, run no agent,
\* written no row and sent no tool event; a turn on the local one has made no
\* remote request
C34_Apart ==
    /\ pc \in RemotePcs =>
          /\ history = <<>> /\ trace = <<>> /\ finalAnswer = <<>>
          /\ toolCalls = <<>> /\ toolCounter = 0
          /\ store = store0
          /\ NoToolEvent(out)
    /\ pc \in LocalPcs =>
          /\ upstream = <<>> /\ decoder = <<>> /\ buffer = <<>>
          /\ currentEvent = Null /\ ~started /\ seen = {}

\* the request is put on the remote transport exactly when both variables are
\* set, a turn stays on the transport it was put on, and its steps leave the
\* other transport's state alone
C34_Stays ==
    /\ \A m \in Bodies, t \in Threads, url \in BOOLEAN, key \in BOOLEAN :
          (POST(m, t, url /\ key) /\ status' = 200) =>
              /\ url /\ key => pc' = "fetch"
              /\ ~(url /\ key) => pc' = "load"
    /\ pc \in RemotePcs =>
          /\ pc' \in RemotePcs \cup {"closed"}
          /\ UNCHANGED <<history, trace, finalAnswer, toolCalls, toolCounter, store>>
          /\ NoToolEvent(out')
    /\ pc \in LocalPcs =>
          /\ pc' \in LocalPcs \cup {"closed"}
          /\ UNCHANGED remoteVars

\* C34: the transport is chosen once per turn from the configuration and the
\* two are exclusive: with the deployment URL and the API key both set the
\* turn is served by the remote passthrough alone (no history loaded or
\* appended, no agent, no tool event), otherwise by the local agent loop alone
\* (no remote request).
C34_OneTransport == []C34_Apart /\ [][C34_Stays]_vars

\* a remote turn read to its end with a delta passed on: no history, no agent
\* event, the table as the request found it
C34_Witness ==
    /\ StreamEnded
    /\ failure = "close"
    /\ Has(out, "text-delta")
    /\ history = <<>> /\ trace = <<>> /\ store = store0

\* ------------------------------------------------------ turns kept apart
RECURSIVE Replay(_, _)
\* the locals of a turn after the events, taken one turn alone
Replay(st, events) ==
    IF events = <<>> THEN st ELSE Replay(Correlate(st, Head(events)), Tail(events))

Alone(events) ==
    Replay([toolCalls |-> <<>>, toolCounter |-> 0, out |-> <<>>, trace |-> <<>>], events)

\* the ids and events of each turn are those its own agent events give a turn
\* served alone, counted from the same start
C35_OwnEventsOnly ==
    /\ pc = "loop" =>
          /\ out = <<EvStart, EvStartStep>> \o Alone(trace).out
          /\ toolCalls = Alone(trace).toolCalls
          /\ toolCounter = Alone(trace).toolCounter
    /\ other.out = Alone(other.trace).out
    /\ other.toolCalls = Alone(other.trace).toolCalls
    /\ other.toolCounter = Alone(other.trace).toolCounter

\* C35: turns served at the same time share no correlator and no emitter:
\* however the events of two requests interleave, the call ids and outbound
\* events of a turn are those of its own agent events alone, each turn counts
\* its ids from the same start, and a step of one turn leaves the other's
\* table, counter and stream as they are.
C35_TurnsApart ==
    /\ []C35_OwnEventsOnly
    /\ [][/\ other' # other => UNCHANGED <<out, toolCalls, toolCounter, trace>>
          /\ <<out, toolCalls, toolCounter, trace>>' # <<out, toolCalls, toolCounter, trace>>
                => other' = other]_vars

\* both turns have announced a call of tool a, each under the id 1, and the
\* second turn has resolved its own
C35_Witness ==
    /\ pc = "loop"
    /\ Len(trace) = 1 /\ Len(other.trace) = 2
    /\ Last(out) = EvToolInput(1, "a", <<"args">>)
    /\ other.out = <<EvToolInput(1, "a", <<"args">>), EvToolOutput(1, <<"res">>)>>
    /\ toolCalls = <<[tool |-> "a", id |-> 1]>>
    /\ other.toolCalls = <<>>

BlankId(id) == id \in {"", " "}

GraphPcs == {"g_load", "g_create", "g_loop", "g_save", "g_append", "g_done", "g_failed"}

\* where the node is, what it has read and written: the store is read (before
\* the agent runs) and written (one turn, after the agent finished) exactly
\* when there is a query and a session id
C37_Touched ==
    /\ pc \in {"g_load", "g_save", "g_append"} => (query # <<>> /\ sessionKey # "")
    /\ (pc \in GraphPcs /\ result = NoInput) =>
          (pc = "g_done" /\ trace = <<>> /\ history = <<>> /\ store = store0 /\ answer = <<>>)
    /\ (pc \in GraphPcs /\ result # NoInput) => query # <<>>
    /\ pc \in {"g_loop", "g_save"} =>
          history = (IF sessionKey # ""
                     THEN LoadedHistory(store0, sessionKey, query)
                     ELSE <<[query |-> query, answer |-> <<>>, summary |-> NoSummary]>>)
    /\ pc \in GraphPcs \ {"g_done"} => store = store0
    /\ (pc = "g_done" /\ result # NoInput) =>
          /\ trace # <<>> \/ result = NoResponse
          /\ IF sessionKey = "" THEN store = store0
             ELSE /\ Len(store) = Len(store0) + 1
                  /\ SubSeq(store, 1, Len(store0)) = store0
                  /\ Last(store).session = sessionKey
                  /\ Last(store).query = query
                  /\ Last(store).answer = result

\* the id of the run configuration goes before the id of the state, and a
\* blank one counts as absent
C37_Precedence ==
    \A g \in GraphStates, s \in {"", " ", "k1", "k2"}, h \in {"", " ", "k1", "k2"} :
        (GraphInvoke(g, s, h) /\ query' # <<>>) =>
            sessionKey' = (IF ~BlankId(h) THEN h ELSE IF ~BlankId(s) THEN s ELSE "")

\* C37: runDexter touches the history store exactly when the trimmed query is
\* not empty and a session id is resolved: then the history is loaded before
\* the agent runs and exactly one turn is appended after it finished; without
\* a session id the store is neither read nor written; with an empty query
\* the node returns "No input provided." without running the agent or touching
\* the store.  The id of the run configuration ('x-session-id') goes before
\* the one in the state, and blank values count as absent.
C37_StoreWhenSession == []C37_Touched /\ [][C37_Precedence]_vars

\* a run under session k2 that ended with the answer A: the turn is the one
\* row added, after the row the table held
C37_Witness ==
    /\ pc = "g_done"
    /\ sessionKey = "k2"
    /\ result = <<"A">>
    /\ Len(history) = 1
    /\ store = store0 \o <<[session |-> "k2", query |-> query, answer |-> <<"A">>,
                            summary |-> <<"sum">>]>>

====
